---------------------------- MODULE Spec2Model ----------------------------
(***************************************************************************)
(* Model of the core of uav_deconflict: the Trajectory value type and its  *)
(* sampling (src/src/deconflict/traject.py), the spatio-temporal conflict  *)
(* detector and its report (src/src/deconflict/temporal.py) and the return *)
(* step of the mission analyzer (src/src/deconflict/analyzer.py).          *)
(*                                                                         *)
(* Numbers.  The program computes with floats; the model computes with     *)
(* exact rationals <<n, d>> (d > 0, lowest terms), so every value below is *)
(* the value the code's formula denotes.  A Euclidean norm is carried as   *)
(* its square (np.linalg.norm(v) ** 2); a comparison of a norm with a      *)
(* threshold is made on the squares, with the sign of the threshold taken  *)
(* into account.                                                           *)
(***************************************************************************)
EXTENDS Integers, Sequences, FiniteSets, TLC

VARIABLES
    \* ---- check_spatiotemporal_conflicts (temporal.py) ----
    primary_traj,     \* argument: the primary Trajectory
    sim_trajs,        \* argument: the list of intruder Trajectories
    safety_buffer_m,  \* argument
    dt,               \* argument
    use_3d,           \* argument
    pc,               \* position in the call: "loop", "done", "raised"
    i,                \* index (1-based) of the intruder the for-loop takes next
    conflicts,        \* the local list `conflicts`
    origin,           \* history: origin[k] = <<index in sim_trajs, grid instant>>
                      \* of the k-th record appended to `conflicts`
    result,           \* the dict the call returned, NoValue before
    formatted,        \* format_conflict_report(conflicts) once applied
    am_return,        \* the pair analyze_mission returned, NoValue before
    \* ---- Trajectory (traject.py) ----
    raw_times,        \* constructor argument `times`
    raw_positions,    \* constructor argument `positions`
    tpc,              \* "new", "built", "raised"
    traj,             \* the constructed Trajectory, NoValue before / on failure
    op,               \* the last method applied to traj ("none" before any)
    arg,              \* its argument (t or dt_s)
    out,              \* [ok, val]: ok = FALSE when it raised, else val holds
                      \* what it returned
    \* ---- interpolate_from_waypoints (traject.py) ----
    waypoints,        \* argument: the list of Waypoints
    method,           \* argument
    mission_window,   \* argument: NoValue (None) or Some(<<start_dt, end_dt>>)
    max_speed_mps,    \* argument: NoValue (None) or Some(speed)
    wp_times,         \* the local `times` once computed, NoValue before
    \* ---- check_spatial_conflict / closest_approach (spatial.py) ----
    traj_A,           \* argument
    traj_B,           \* argument
    buffer_m,         \* argument of check_spatial_conflict
    spc,              \* "idle", "call", "raised"
    checked,          \* what check_spatial_conflict returned, NoValue before
    approach,         \* what closest_approach returned, NoValue before
    \* ---- analyze_mission (analyzer.py) and run_analysis (cli.py) ----
    primary_mission_json,    \* content of the primary mission file
    simulated_flights_json,  \* content of the simulated flights file
    entry,            \* the function called: "analyze_mission", "run_analysis"
    output_file,      \* argument of run_analysis: NoValue (None) or Some(path)
    stdout,           \* the lines printed
    report_json,      \* the JSON value written to output_file, NoValue if none
    apc,              \* "idle", "call", "returned", "raised"
    \* ---- two calls of the detector that differ in the buffer ----
    wider_buffer_m,   \* safety_buffer_m of the second call
    wider_result      \* what the second call returned, NoValue before

vars == <<primary_traj, sim_trajs, safety_buffer_m, dt, use_3d, pc, i,
          conflicts, origin, result, formatted, am_return,
          raw_times, raw_positions, tpc, traj, op, arg, out,
          waypoints, method, mission_window, max_speed_mps, wp_times,
          traj_A, traj_B, buffer_m, spc, checked, approach,
          primary_mission_json, simulated_flights_json, entry, output_file,
          stdout, report_json, apc, wider_buffer_m, wider_result>>

detVars == <<primary_traj, sim_trajs, safety_buffer_m, dt, use_3d, pc, i,
             conflicts, origin, result, formatted, am_return>>

trajVars == <<raw_times, raw_positions, tpc, traj, op, arg, out>>

buildVars == <<waypoints, method, mission_window, max_speed_mps, wp_times>>

spatVars == <<traj_A, traj_B, buffer_m, spc, checked, approach>>

anaVars == <<primary_mission_json, simulated_flights_json, entry, output_file,
             stdout, report_json, apc>>

cmpVars == <<wider_buffer_m, wider_result>>

\* An optional value is a sequence of length 0 (absent) or 1.
NoValue == <<>>
Some(v) == <<v>>

-----------------------------------------------------------------------------
(* Bounds of the model.                                                    *)

\* Knot times of the generated trajectories are drawn from 0..MaxT.
MaxT == 2
\* The constructor is tried on time and position lists of length 0..MaxKnots.
MaxKnots == 3

-----------------------------------------------------------------------------
(* Exact rational arithmetic.                                              *)

Abs(n) == IF n < 0 THEN -n ELSE n

RECURSIVE GCD(_, _)
GCD(a, b) == IF b = 0 THEN a ELSE GCD(b, a % b)

\* The rational n/d (d # 0) in lowest terms with a positive denominator.
Rat(n, d) ==
    LET g == GCD(Abs(n), Abs(d))
        s == IF d < 0 THEN -1 ELSE 1
    IN  <<(s * n) \div g, (s * d) \div g>>

R(n) == <<n, 1>>
RAdd(a, b) == Rat(a[1] * b[2] + b[1] * a[2], a[2] * b[2])
RSub(a, b) == Rat(a[1] * b[2] - b[1] * a[2], a[2] * b[2])
RMul(a, b) == Rat(a[1] * b[1], a[2] * b[2])
RDiv(a, b) == Rat(a[1] * b[2], a[2] * b[1])
RLt(a, b) == a[1] * b[2] < b[1] * a[2]
RLe(a, b) == a[1] * b[2] <= b[1] * a[2]
RMax(a, b) == IF RLt(a, b) THEN b ELSE a
RMin(a, b) == IF RLt(b, a) THEN b ELSE a
RFloor(a) == a[1] \div a[2]
RCeil(a) == -((-a[1]) \div a[2])
Zero == R(0)

\* A row of integers as a row of floats.
RRow(row) == [k \in 1..Len(row) |-> R(row[k])]

-----------------------------------------------------------------------------
(* Trajectory (traject.py).  A Trajectory is a record                       *)
(* [times, positions, flight_id]: times a sequence of rationals, positions  *)
(* a sequence of rows <<x, y, z>> of rationals.                            *)

\* Mutant of post_init_error: the monotonicity test written `< 0`, which
\* lets a repeated time through.
post_init_error_nonstrict(times, positions) ==
    IF positions = <<>> THEN "positions must be of shape (N, 3)"
    ELSE IF \E r \in 1..Len(positions) : Len(positions[r]) # Len(positions[1])
         THEN "inhomogeneous shape"
    ELSE IF Len(positions[1]) # 3 THEN "positions must be of shape (N, 3)"
    ELSE IF Len(times) # Len(positions)
         THEN "times and positions length mismatch"
    ELSE IF \E k \in 1..(Len(times) - 1) : times[k + 1] - times[k] < 0
         THEN "times must be strictly increasing"
    ELSE ""

\* Trajectory.__post_init__: the error it raises on (times, positions), or
\* "" when it accepts them.  `times` is a flat list, so times.ndim = 1;
\* np.asarray of an empty list is 1-D, of a list of equal-length rows 2-D,
\* and of ragged rows it raises.
post_init_error(times, positions) ==
    IF positions = <<>> THEN "positions must be of shape (N, 3)"
    ELSE IF \E r \in 1..Len(positions) : Len(positions[r]) # Len(positions[1])
         THEN "inhomogeneous shape"
    ELSE IF Len(positions[1]) # 3 THEN "positions must be of shape (N, 3)"
    ELSE IF Len(times) # Len(positions)
         THEN "times and positions length mismatch"
    ELSE IF \E k \in 1..(Len(times) - 1) : times[k + 1] - times[k] <= 0
         THEN "times must be strictly increasing"
    ELSE ""

\* The Trajectory the dataclass holds once __post_init__ accepted the input.
Trajectory(times, positions, flight_id) ==
    [times     |-> [k \in 1..Len(times) |-> R(times[k])],
     positions |-> [k \in 1..Len(positions) |-> RRow(positions[k])],
     flight_id |-> flight_id]

\* Trajectory.time_range
time_range(T) == <<T.times[1], T.times[Len(T.times)]>>

Column(positions, c) == [k \in 1..Len(positions) |-> positions[k][c]]

\* Mutant of np_interp: the slope taken without dividing by the length of
\* the segment.
np_interp_undivided(x, xp, fp) ==
    LET n == Len(xp) IN
    IF RLt(x, xp[1]) THEN fp[1]
    ELSE IF RLt(xp[n], x) THEN fp[n]
    ELSE LET j == CHOOSE k \in 1..n :
                      RLe(xp[k], x) /\ (k = n \/ RLt(x, xp[k + 1]))
         IN  IF j = n THEN fp[n]
             ELSE IF xp[j] = x THEN fp[j]
             ELSE RAdd(RMul(RSub(fp[j + 1], fp[j]), RSub(x, xp[j])), fp[j])

\* np.interp(x, xp, fp) for one x and increasing xp: left/right fill with the
\* end values, else the segment j with xp[j] <= x < xp[j+1] and
\* slope * (x - xp[j]) + fp[j].
np_interp(x, xp, fp) ==
    LET n == Len(xp) IN
    IF RLt(x, xp[1]) THEN fp[1]
    ELSE IF RLt(xp[n], x) THEN fp[n]
    ELSE LET j == CHOOSE k \in 1..n :
                      RLe(xp[k], x) /\ (k = n \/ RLt(x, xp[k + 1]))
         IN  IF j = n THEN fp[n]
             ELSE IF xp[j] = x THEN fp[j]
             ELSE LET slope == RDiv(RSub(fp[j + 1], fp[j]),
                                    RSub(xp[j + 1], xp[j]))
                  IN  RAdd(RMul(slope, RSub(x, xp[j])), fp[j])

\* Mutant of sample_position_at: between knots, the position of the last
\* knot passed (no interpolation).
sample_position_hold(T, t) ==
    LET n == Len(T.times) IN
    IF RLe(t, T.times[1]) THEN T.positions[1]
    ELSE IF RLe(T.times[n], t) THEN T.positions[n]
    ELSE T.positions[CHOOSE k \in 1..(n - 1) :
                        RLe(T.times[k], t) /\ RLt(t, T.times[k + 1])]

\* Trajectory.sample_position_at for a numeric t.
sample_position_at(T, t) ==
    LET n == Len(T.times) IN
    IF RLe(t, T.times[1]) THEN T.positions[1]
    ELSE IF RLe(T.times[n], t) THEN T.positions[n]
    ELSE <<np_interp(t, T.times, Column(T.positions, 1)),
           np_interp(t, T.times, Column(T.positions, 2)),
           np_interp(t, T.times, Column(T.positions, 3))>>

\* Mutant of np_linspace: the endpoint left out (endpoint=False).
np_linspace_open(start, stop, num) ==
    [k \in 1..num |-> RAdd(start, RMul(R(k - 1), RDiv(RSub(stop, start), R(num))))]

\* np.linspace(start, stop, num), endpoint included: num = 1 gives [start].
np_linspace(start, stop, num) ==
    IF num = 1 THEN <<start>>
    ELSE LET step == RDiv(RSub(stop, start), R(num - 1))
         IN  [k \in 1..num |->
                IF k = num THEN stop ELSE RAdd(start, RMul(R(k - 1), step))]

\* Trajectory.sample_uniform: [ok |-> FALSE, ...] when it raises, else the
\* pair <<times_out, positions_out>>.
sample_uniform(T, dt_s) ==
    IF RLe(dt_s, Zero) THEN [ok |-> FALSE, val |-> <<"dt_s must be positive">>]
    ELSE LET t0 == time_range(T)[1]
             t1 == time_range(T)[2]
         IN  IF RLe(t1, t0) THEN [ok |-> FALSE, val |-> <<"Invalid time range">>]
             ELSE LET n_steps   == RFloor(RDiv(RSub(t1, t0), dt_s)) + 1
                      times_out == np_linspace(t0, t1, n_steps)
                      pos_out   ==
                        [k \in 1..n_steps |->
                          <<np_interp(times_out[k], T.times, Column(T.positions, 1)),
                            np_interp(times_out[k], T.times, Column(T.positions, 2)),
                            np_interp(times_out[k], T.times, Column(T.positions, 3))>>]
                  IN  [ok |-> TRUE, val |-> <<times_out, pos_out>>]

-----------------------------------------------------------------------------
(* check_spatiotemporal_conflicts (temporal.py).                           *)

\* Mutant of np_arange: the count rounded down, which drops the last
\* instant of a span that is no multiple of the step.
np_arange_floor(start, stop, step) ==
    LET len == RFloor(RDiv(RSub(stop, start), step))
    IN  [k \in 1..(IF len > 0 THEN len ELSE 0) |->
            RAdd(start, RMul(R(k - 1), step))]

\* np.arange(start, stop, step) for step # 0: ceil((stop - start) / step)
\* values start + k * step, none when that count is not positive.
np_arange(start, stop, step) ==
    LET len == RCeil(RDiv(RSub(stop, start), step))
    IN  [k \in 1..(IF len > 0 THEN len ELSE 0) |->
            RAdd(start, RMul(R(k - 1), step))]

\* round() of a non-negative rational, ties to the even integer.
RoundHalfEven(q) ==
    LET f == RFloor(q)
        r == RSub(q, R(f))
    IN  IF RLt(r, Rat(1, 2)) THEN f
        ELSE IF RLt(Rat(1, 2), r) THEN f + 1
        ELSE IF f % 2 = 0 THEN f ELSE f + 1

\* datetime.utcfromtimestamp(t).isoformat(): the calendar reading of t, as
\* <<days since the epoch, hour, minute, second, microsecond>>.
utc_isoformat(t) ==
    LET whole == RFloor(t)
        us0   == RoundHalfEven(RMul(RSub(t, R(whole)), R(1000000)))
        sec   == IF us0 >= 1000000 THEN whole + 1 ELSE whole
        us    == IF us0 >= 1000000 THEN us0 - 1000000 ELSE us0
    IN  <<sec \div 86400, (sec % 86400) \div 3600, (sec % 3600) \div 60,
          sec % 60, us>>

overlap_start(P, S) == RMax(time_range(P)[1], time_range(S)[1])
\* Mutant of overlap_end: the later of the two end times.
overlap_end_max(P, S) == RMax(time_range(P)[2], time_range(S)[2])

overlap_end(P, S) == RMin(time_range(P)[2], time_range(S)[2])

\* Mutant of t_grid: the grid begun one step after overlap_start.
t_grid_after_start(P, S, step) ==
    np_arange(RAdd(overlap_start(P, S), step), overlap_end(P, S), step)

\* t_grid = np.arange(overlap_start, overlap_end, dt)
t_grid(P, S, step) == np_arange(overlap_start(P, S), overlap_end(P, S), step)

\* The square of np.linalg.norm(a[:dims] - b[:dims]).
norm_sq(a, b, dims) ==
    LET sq(c) == RMul(RSub(a[c], b[c]), RSub(a[c], b[c]))
    IN  IF dims = 3 THEN RAdd(RAdd(sq(1), sq(2)), sq(3))
        ELSE RAdd(sq(1), sq(2))

\* Mutant of norm_lt: `dist <= buffer`.
norm_le(dsq, buffer) == RLt(Zero, buffer) /\ RLe(dsq, RMul(buffer, buffer))

\* Mutant of norm_lt: the squares compared whatever the sign of the buffer.
norm_lt_unsigned(dsq, buffer) == RLt(dsq, RMul(buffer, buffer))

\* `dist < buffer` for a norm given by its square.
norm_lt(dsq, buffer) == RLt(Zero, buffer) /\ RLt(dsq, RMul(buffer, buffer))

\* Mutant of dims_of: the two cases exchanged.
dims_swapped(flag3d) == IF flag3d THEN 2 ELSE 3

\* dims = 3 if use_3d else 2
dims_of(flag3d) == IF flag3d THEN 3 ELSE 2

\* primary_samples / sim_samples: each trajectory sampled over a grid.
samples_on(T, grid) == [k \in 1..Len(grid) |-> sample_position_at(T, grid[k])]

primary_samples(P, S, step) == samples_on(P, t_grid(P, S, step))

sim_samples(P, S, step) == samples_on(S, t_grid(P, S, step))

dists(P, S, step, flag3d) ==
    LET grid == t_grid(P, S, step)
        ps   == samples_on(P, grid)
        ss   == samples_on(S, grid)
    IN  [k \in 1..Len(grid) |-> norm_sq(ps[k], ss[k], dims_of(flag3d))]

\* Mutant of conflict_indices: the violating indices latest first.
conflict_indices_desc(P, S, buffer, step, flag3d) ==
    LET d   == dists(P, S, step, flag3d)
        asc == SelectSeq([k \in 1..Len(d) |-> k], LAMBDA k : norm_lt(d[k], buffer))
    IN  [k \in 1..Len(asc) |-> asc[Len(asc) + 1 - k]]

\* np.where(dists < safety_buffer_m)[0]: the violating indices, ascending.
conflict_indices(P, S, buffer, step, flag3d) ==
    LET d == dists(P, S, step, flag3d)
    IN  SelectSeq([k \in 1..Len(d) |-> k], LAMBDA k : norm_lt(d[k], buffer))

\* The dict built for grid index idx.  min_distance_m holds the square of
\* the distance; explanation holds the values the f-string renders.
conflict_details(P, S, step, flag3d, idx) ==
    LET t_val == t_grid(P, S, step)[idx]
        t_iso == utc_isoformat(t_val)
        prim  == sample_position_at(P, t_val)
        sim   == sample_position_at(S, t_val)
        dist  == norm_sq(prim, sim, dims_of(flag3d))
    IN  [flight_id          |-> S.flight_id,
         conflict_times     |-> <<t_iso>>,
         conflict_positions |-> <<[primary |-> prim, sim |-> sim]>>,
         min_distance_m     |-> dist,
         time_of_min        |-> t_iso,
         explanation        |-> <<t_iso, S.flight_id, dist, <<prim[1], prim[2]>>>>]

\* The records one pass of the for-loop appends for intruder S.
new_conflicts(P, S, buffer, step, flag3d) ==
    LET ci == conflict_indices(P, S, buffer, step, flag3d)
    IN  [k \in 1..Len(ci) |-> conflict_details(P, S, step, flag3d, ci[k])]

\* Mutant of report_of: "conflict" only from the second record on.
report_of_many(cs) ==
    IF Len(cs) > 1 THEN [status |-> "conflict", conflicts |-> cs]
    ELSE [status |-> "clear", conflicts |-> cs]

\* The dict the function returns for its final list.
report_of(cs) ==
    IF cs # <<>> THEN [status |-> "conflict", conflicts |-> cs]
    ELSE [status |-> "clear", conflicts |-> <<>>]

\* format_conflict_report
format_conflict_report(cs) ==
    IF cs = <<>> THEN [status |-> "clear", conflicts |-> <<>>]
    ELSE [status |-> "conflict",
          conflicts |->
            [k \in 1..Len(cs) |->
               [flight_id          |-> cs[k].flight_id,
                conflict_times     |-> cs[k].conflict_times,
                conflict_positions |-> cs[k].conflict_positions,
                min_distance_m     |-> cs[k].min_distance_m,
                time_of_min        |-> cs[k].time_of_min,
                explanation        |-> cs[k].explanation]]]

\* analyze_mission, step 4: the pair it returns for the detector's dict.
analyze_return(conflict_result) ==
    IF conflict_result.status = "clear" THEN <<"clear", conflict_result>>
    ELSE <<"conflict", conflict_result>>

-----------------------------------------------------------------------------
(* Inputs of the detector.                                                 *)

PointA == <<0, 0, 0>>
PointB == <<2, 0, 0>>
PointC == <<0, 1, 2>>

\* Waypoint paths of the generated primaries and intruders.
PrimaryPaths == {<<PointA, PointB>>, <<PointA, PointA>>}
IntruderPaths == {<<PointB, PointA>>, <<PointA, PointC>>,
                  <<PointB, PointA, PointB>>}

\* The strictly increasing n-tuples of knot times in 0..MaxT.
KnotTimes(n) ==
    {ts \in [1..n -> 0..MaxT] : \A k \in 1..(n - 1) : ts[k] < ts[k + 1]}

TrajsOver(paths, id) ==
    {Trajectory(ts, path, id) : <<path, ts>> \in
        UNION {{<<q, u>> : u \in KnotTimes(Len(q))} : q \in paths}}

FlightIds == <<"F1", "F2">>
SimCounts == 0..2

\* Intruder lists: the k-th intruder carries the k-th flight id.
SimLists ==
    UNION {{l \in [1..n -> TrajsOver(IntruderPaths, "x")] : TRUE} : n \in SimCounts}

WithIds(l) == [k \in 1..Len(l) |-> [l[k] EXCEPT !.flight_id = FlightIds[k]]]

\* <<safety_buffer_m, dt, use_3d>>: every buffer with every positive step in
\* 2-D and 3-D, and a negative and a zero step.
Buffers == {R(1), R(2)}
Steps == {R(1), R(2)}
CallParams ==
    (Buffers \X Steps \X BOOLEAN) \cup ({R(2)} \X {R(-1), R(0)} \X {FALSE})

TrajIdle ==
    /\ raw_times = <<>>
    /\ raw_positions = <<>>
    /\ tpc = "idle"
    /\ traj = NoValue
    /\ op = "none"
    /\ arg = Zero
    /\ out = [ok |-> TRUE, val |-> <<>>]

BuildIdle ==
    /\ waypoints = <<>>
    /\ method = "linear"
    /\ mission_window = NoValue
    /\ max_speed_mps = NoValue
    /\ wp_times = NoValue

SpatIdle ==
    /\ traj_A = NoValue
    /\ traj_B = NoValue
    /\ buffer_m = Zero
    /\ spc = "idle"
    /\ checked = NoValue
    /\ approach = NoValue

AnaIdle ==
    /\ primary_mission_json = NoValue
    /\ simulated_flights_json = <<>>
    /\ entry = "none"
    /\ output_file = NoValue
    /\ stdout = <<>>
    /\ report_json = NoValue
    /\ apc = "idle"

CmpIdle ==
    /\ wider_buffer_m = Zero
    /\ wider_result = NoValue

\* Entry of check_spatiotemporal_conflicts: conflicts = [], loop not begun.
CallEntry ==
    /\ pc = "loop"
    /\ i = 1
    /\ conflicts = <<>>
    /\ origin = <<>>
    /\ result = NoValue
    /\ formatted = NoValue
    /\ am_return = NoValue

InitBounded ==
    /\ primary_traj \in TrajsOver(PrimaryPaths, "primary")
    /\ \E l \in SimLists : sim_trajs = WithIds(l)
    /\ \E cp \in CallParams :
         safety_buffer_m = cp[1] /\ dt = cp[2] /\ use_3d = cp[3]

\* Length in seconds of the shared window of the scenario.
ScenarioWindow == 10

\* The scenario of tests/test_temporal.py: perpendicular paths over one
\* shared 10 s window beginning at any start.
InitScenario ==
    /\ \E start \in 0..MaxT :
         /\ primary_traj = Trajectory(<<start, start + ScenarioWindow>>,
                                      <<<<0, 0, 0>>, <<10, 0, 0>>>>, "primary")
         /\ sim_trajs = <<Trajectory(<<start, start + ScenarioWindow>>,
                                     <<<<5, -5, 0>>, <<5, 5, 0>>>>, "primary")>>
    /\ safety_buffer_m = R(1)
    /\ dt = R(1)
    /\ use_3d \in BOOLEAN

Init ==
    /\ InitBounded \/ InitScenario
    /\ CallEntry
    /\ TrajIdle
    /\ BuildIdle
    /\ SpatIdle
    /\ AnaIdle
    /\ CmpIdle

-----------------------------------------------------------------------------
(* The for-loop of check_spatiotemporal_conflicts, one pass per action.    *)

InLoop == pc = "loop" /\ i <= Len(sim_trajs)
Cur == sim_trajs[i]
HasOverlap == RLt(overlap_start(primary_traj, Cur), overlap_end(primary_traj, Cur))

Continue ==
    /\ i' = i + 1
    /\ UNCHANGED <<primary_traj, sim_trajs, safety_buffer_m, dt, use_3d, pc,
                   conflicts, origin, result, formatted, am_return>>
    /\ UNCHANGED <<trajVars, buildVars, spatVars, anaVars, cmpVars>>

\* lines 49-51: no temporal overlap
LoopNoOverlap ==
    /\ InLoop
    /\ ~HasOverlap
    /\ Continue

\* line 54: np.arange raises on a zero step
LoopZeroStep ==
    /\ InLoop
    /\ HasOverlap
    /\ dt = Zero
    /\ pc' = "raised"
    /\ UNCHANGED <<primary_traj, sim_trajs, safety_buffer_m, dt, use_3d, i,
                   conflicts, origin, result, formatted, am_return>>
    /\ UNCHANGED <<trajVars, buildVars, spatVars, anaVars, cmpVars>>

\* lines 55-56: empty grid
LoopEmptyGrid ==
    /\ InLoop
    /\ HasOverlap
    /\ dt # Zero
    /\ t_grid(primary_traj, Cur, dt) = <<>>
    /\ Continue

\* lines 77-78: no sample under the buffer
LoopNoViolation ==
    /\ InLoop
    /\ HasOverlap
    /\ dt # Zero
    /\ t_grid(primary_traj, Cur, dt) # <<>>
    /\ conflict_indices(primary_traj, Cur, safety_buffer_m, dt, use_3d) = <<>>
    /\ Continue

\* Mutant of LoopAppend: the records of this pass replace the list instead
\* of being appended to it.
LoopAppendOverwrite ==
    /\ InLoop
    /\ HasOverlap
    /\ dt # Zero
    /\ t_grid(primary_traj, Cur, dt) # <<>>
    /\ LET ci == conflict_indices(primary_traj, Cur, safety_buffer_m, dt, use_3d)
       IN  /\ ci # <<>>
           /\ conflicts' = new_conflicts(primary_traj, Cur, safety_buffer_m, dt, use_3d)
           /\ origin' =
                [k \in 1..Len(ci) |-> <<i, t_grid(primary_traj, Cur, dt)[ci[k]]>>]
    /\ i' = i + 1
    /\ UNCHANGED <<primary_traj, sim_trajs, safety_buffer_m, dt, use_3d, pc,
                   result, formatted, am_return>>
    /\ UNCHANGED <<trajVars, buildVars, spatVars, anaVars, cmpVars>>

\* lines 81-104: one record per violating index
LoopAppend ==
    /\ InLoop
    /\ HasOverlap
    /\ dt # Zero
    /\ t_grid(primary_traj, Cur, dt) # <<>>
    /\ LET ci == conflict_indices(primary_traj, Cur, safety_buffer_m, dt, use_3d)
       IN  /\ ci # <<>>
           /\ conflicts' = conflicts \o
                new_conflicts(primary_traj, Cur, safety_buffer_m, dt, use_3d)
           /\ origin' = origin \o
                [k \in 1..Len(ci) |-> <<i, t_grid(primary_traj, Cur, dt)[ci[k]]>>]
    /\ i' = i + 1
    /\ UNCHANGED <<primary_traj, sim_trajs, safety_buffer_m, dt, use_3d, pc,
                   result, formatted, am_return>>
    /\ UNCHANGED <<trajVars, buildVars, spatVars, anaVars, cmpVars>>

\* lines 106-109
Return ==
    /\ pc = "loop"
    /\ i > Len(sim_trajs)
    /\ result' = Some(report_of(conflicts))
    /\ pc' = "done"
    /\ UNCHANGED <<primary_traj, sim_trajs, safety_buffer_m, dt, use_3d, i,
                   conflicts, origin, formatted, am_return>>
    /\ UNCHANGED <<trajVars, buildVars, spatVars, anaVars, cmpVars>>

\* format_conflict_report applied to the conflicts the detector produced
FormatReport ==
    /\ pc = "done"
    /\ formatted' = Some(format_conflict_report(result[1].conflicts))
    /\ pc' = "formatted"
    /\ UNCHANGED <<primary_traj, sim_trajs, safety_buffer_m, dt, use_3d, i,
                   conflicts, origin, result, am_return>>
    /\ UNCHANGED <<trajVars, buildVars, spatVars, anaVars, cmpVars>>

\* analyze_mission lines 96-101, the detector having been its step 3
AnalyzeReturn ==
    /\ pc = "done"
    /\ am_return' = Some(analyze_return(result[1]))
    /\ pc' = "returned"
    /\ UNCHANGED <<primary_traj, sim_trajs, safety_buffer_m, dt, use_3d, i,
                   conflicts, origin, result, formatted>>
    /\ UNCHANGED <<trajVars, buildVars, spatVars, anaVars, cmpVars>>

Next ==
    \/ LoopNoOverlap
    \/ LoopZeroStep
    \/ LoopEmptyGrid
    \/ LoopNoViolation
    \/ LoopAppend
    \/ Return
    \/ FormatReport
    \/ AnalyzeReturn

Spec == Init /\ [][Next]_vars

-----------------------------------------------------------------------------
(* The Trajectory value on its own: construction from raw lists, then the  *)
(* sampling methods applied to the value built.                            *)

\* Rows offered to the constructor: three positions, one row too short and
\* one too long.
Rows == {PointA, PointB, PointC, <<0, 0>>, <<0, 0, 0, 0>>}

SeqsUpTo(S, n) == UNION {[1..m -> S] : m \in 0..n}

\* Arguments t of sample_position_at: the half-integers around [0, MaxT].
QueryTimes == {Rat(k, 2) : k \in (-1)..(2 * MaxT + 1)}

\* Arguments dt_s of sample_uniform.
UniformSteps == {R(-1), R(0), Rat(1, 2), R(1), Rat(3, 2), R(2), R(MaxT + 1)}

DetIdle ==
    /\ primary_traj = NoValue
    /\ sim_trajs = <<>>
    /\ safety_buffer_m = Zero
    /\ dt = Zero
    /\ use_3d = FALSE
    /\ pc = "idle"
    /\ i = 1
    /\ conflicts = <<>>
    /\ origin = <<>>
    /\ result = NoValue
    /\ formatted = NoValue
    /\ am_return = NoValue

InitTraj ==
    /\ raw_times \in SeqsUpTo(0..MaxT, MaxKnots)
    /\ raw_positions \in SeqsUpTo(Rows, MaxKnots)
    /\ tpc = "new"
    /\ traj = NoValue
    /\ op = "none"
    /\ arg = Zero
    /\ out = [ok |-> TRUE, val |-> <<>>]
    /\ DetIdle
    /\ BuildIdle
    /\ SpatIdle
    /\ AnaIdle
    /\ CmpIdle

\* Trajectory(times, positions): __post_init__ accepts
Construct ==
    /\ tpc = "new"
    /\ post_init_error(raw_times, raw_positions) = ""
    /\ traj' = Some(Trajectory(raw_times, raw_positions, "primary"))
    /\ tpc' = "built"
    /\ UNCHANGED <<raw_times, raw_positions, op, arg, out>>
    /\ UNCHANGED <<detVars, buildVars, spatVars, anaVars, cmpVars>>

\* Trajectory(times, positions): __post_init__ raises
ConstructRaise ==
    /\ tpc = "new"
    /\ post_init_error(raw_times, raw_positions) # ""
    /\ tpc' = "raised"
    /\ out' = [ok |-> FALSE, val |-> <<post_init_error(raw_times, raw_positions)>>]
    /\ UNCHANGED <<raw_times, raw_positions, traj, op, arg>>
    /\ UNCHANGED <<detVars, buildVars, spatVars, anaVars, cmpVars>>

SampleAt ==
    /\ tpc = "built"
    /\ \E t \in QueryTimes :
         /\ op' = "sample_position_at"
         /\ arg' = t
         /\ out' = [ok |-> TRUE, val |-> sample_position_at(traj[1], t)]
    /\ UNCHANGED <<raw_times, raw_positions, tpc, traj>>
    /\ UNCHANGED <<detVars, buildVars, spatVars, anaVars, cmpVars>>

SampleUniform ==
    /\ tpc = "built"
    /\ \E d \in UniformSteps :
         /\ op' = "sample_uniform"
         /\ arg' = d
         /\ out' = sample_uniform(traj[1], d)
    /\ UNCHANGED <<raw_times, raw_positions, tpc, traj>>
    /\ UNCHANGED <<detVars, buildVars, spatVars, anaVars, cmpVars>>

NextTraj ==
    \/ Construct
    \/ ConstructRaise
    \/ SampleAt
    \/ SampleUniform

SpecTraj == InitTraj /\ [][NextTraj]_vars

-----------------------------------------------------------------------------
(* Claims about the Trajectory value (checked under SpecTraj).             *)

StrictlyIncreasing(ts) == \A k \in 1..(Len(ts) - 1) : ts[k] < ts[k + 1]

\* C7: every Trajectory that construction accepts has as many times as
\* positions, only 3-coordinate positions and strictly increasing times (and
\* holds the values given); construction from lists with a length mismatch,
\* a position that has not 3 coordinates, or an adjacent pair of times that
\* does not increase raises and yields no Trajectory.
C7_ConstructionValidates ==
    /\ tpc = "built" =>
         /\ traj # NoValue
         /\ Len(traj[1].times) = Len(traj[1].positions)
         /\ \A k \in 1..Len(traj[1].positions) : Len(traj[1].positions[k]) = 3
         /\ \A k \in 1..(Len(traj[1].times) - 1) :
               RLt(traj[1].times[k], traj[1].times[k + 1])
         /\ traj[1].times = [k \in 1..Len(raw_times) |-> R(raw_times[k])]
         /\ traj[1].positions = [k \in 1..Len(raw_positions) |-> RRow(raw_positions[k])]
    /\ ( /\ tpc # "new"
         /\ \/ Len(raw_times) # Len(raw_positions)
            \/ \E k \in 1..Len(raw_positions) : Len(raw_positions[k]) # 3
            \/ ~StrictlyIncreasing(raw_times) )
       => (tpc = "raised" /\ traj = NoValue /\ ~out.ok)

\* C7 witness: one construction accepted with two or more samples, seen
\* beside the rejected ones (a duplicate time is among the inputs).
C7_Witness ==
    /\ tpc = "built"
    /\ Len(traj[1].times) >= 2

\* C8 (as claimed): every Trajectory value holds at least 2 time values, so
\* constructing one directly from fewer than 2 samples fails.
C8_AtLeastTwoSamples ==
    tpc = "built" => Len(traj[1].times) >= 2

\* The reference clamp-and-interpolate function of C9 on one coordinate c:
\* the set of values it allows at t (every segment that contains t is tried).
RefValues(T, t, c) ==
    LET n == Len(T.times) IN
    IF RLe(t, T.times[1]) THEN {T.positions[1][c]}
    ELSE IF RLe(T.times[n], t) THEN {T.positions[n][c]}
    ELSE {RAdd(T.positions[k][c],
               RMul(RDiv(RSub(t, T.times[k]), RSub(T.times[k + 1], T.times[k])),
                    RSub(T.positions[k + 1][c], T.positions[k][c]))) :
            k \in {m \in 1..(n - 1) : RLe(T.times[m], t) /\ RLe(t, T.times[m + 1])}}

\* C9: sample_position_at(t) is the first position for t <= t0, the last
\* for t >= t1, and otherwise the linear interpolation, per coordinate, on
\* every segment [times[i], times[i+1]] that contains t; at t = times[i] it
\* is positions[i].
C9_SampleIsClampedInterpolation ==
    (tpc = "built" /\ op = "sample_position_at") =>
        /\ out.ok
        /\ Len(out.val) = 3
        /\ \A c \in 1..3 : RefValues(traj[1], arg, c) = {out.val[c]}
        /\ \A k \in 1..Len(traj[1].times) :
              arg = traj[1].times[k] => out.val = traj[1].positions[k]

\* C9 witness: a query strictly inside a segment of a three-knot trajectory
\* whose answer is none of the recorded positions.
C9_Witness ==
    /\ tpc = "built"
    /\ op = "sample_position_at"
    /\ Len(traj[1].times) = 3
    /\ RLt(traj[1].times[2], arg)
    /\ RLt(arg, traj[1].times[3])
    /\ \A k \in 1..3 : out.val # traj[1].positions[k]

\* C10 (as claimed), for a trajectory with t0 < t1: for every dt > 0,
\* sample_uniform(dt) returns floor((t1 - t0)/dt) + 1 evenly spaced times,
\* the first t0, the last exactly t1, and the last position is the final
\* recorded position.
C10_UniformGridEndsAtT1 ==
    ( /\ tpc = "built"
      /\ op = "sample_uniform"
      /\ RLt(Zero, arg)
      /\ RLt(time_range(traj[1])[1], time_range(traj[1])[2]) )
    => /\ out.ok
       /\ LET t0    == time_range(traj[1])[1]
              t1    == time_range(traj[1])[2]
              ts    == out.val[1]
              ps    == out.val[2]
          IN  /\ Len(ts) = RFloor(RDiv(RSub(t1, t0), arg)) + 1
              /\ Len(ps) = Len(ts)
              /\ ts[1] = t0
              /\ ts[Len(ts)] = t1
              /\ \A k \in 2..(Len(ts) - 1) :
                    RSub(ts[k + 1], ts[k]) = RSub(ts[k], ts[k - 1])
              /\ ps[Len(ps)] = traj[1].positions[Len(traj[1].positions)]

-----------------------------------------------------------------------------
(* Claims about the detector (checked under Spec).                         *)

\* What the claims speak of, stated on the arguments of the call.
FirstTime(T) == T.times[1]
LastTime(T) == T.times[Len(T.times)]
OvStart(k) == IF RLt(FirstTime(primary_traj), FirstTime(sim_trajs[k]))
              THEN FirstTime(sim_trajs[k]) ELSE FirstTime(primary_traj)
OvEnd(k) == IF RLt(LastTime(sim_trajs[k]), LastTime(primary_traj))
            THEN LastTime(sim_trajs[k]) ELSE LastTime(primary_traj)

\* The instants OvStart + j * dt (j = 0, 1, ...) before OvEnd, for dt >= 1
\* (from j = ceil(OvEnd - OvStart) on, the instant is not before OvEnd).
GridInstants(k) ==
    {t \in {RAdd(OvStart(k), RMul(R(j), dt)) :
                j \in 0..RCeil(RSub(OvEnd(k), OvStart(k)))} :
        RLt(t, OvEnd(k))}

\* Squared separation of the primary and intruder k at time t, over the
\* coordinates the call compares.
SepSq(k, t) ==
    LET p == sample_position_at(primary_traj, t)
        q == sample_position_at(sim_trajs[k], t)
        d(c) == RSub(p[c], q[c])
        planar == RAdd(RMul(d(1), d(1)), RMul(d(2), d(2)))
    IN  IF use_3d THEN RAdd(planar, RMul(d(3), d(3))) ELSE planar

\* separation < safety_buffer_m
Below(sq) ==
    /\ safety_buffer_m[1] > 0
    /\ RLt(sq, RMul(safety_buffer_m, safety_buffer_m))

\* The instant an ISO rendering denotes.
Instant(iso) ==
    RAdd(R(iso[1] * 86400 + iso[2] * 3600 + iso[3] * 60 + iso[4]),
         Rat(iso[5], 1000000))

Returned == pc \in {"done", "formatted", "returned"}

\* The intruders whose pass of the loop is over.
Processed ==
    IF Returned THEN 1..Len(sim_trajs)
    ELSE IF pc = "loop" THEN 1..(i - 1) ELSE {}

\* Every record is the one the history names: same intruder, same instant.
RecordsMatchOrigin ==
    /\ Len(origin) = Len(conflicts)
    /\ \A r \in 1..Len(conflicts) :
          /\ origin[r][1] \in 1..Len(sim_trajs)
          /\ conflicts[r].flight_id = sim_trajs[origin[r][1]].flight_id
          /\ Instant(conflicts[r].time_of_min) = origin[r][2]
          /\ conflicts[r].conflict_times = <<conflicts[r].time_of_min>>

\* Times at which the two trajectories are compared when looking for "some
\* common time": the half-integers of the horizon.
ProbeTimes == {Rat(j, 2) : j \in 0..(2 * (MaxT + ScenarioWindow))}

InBothRanges(k, t) ==
    /\ RLe(FirstTime(primary_traj), t) /\ RLe(t, LastTime(primary_traj))
    /\ RLe(FirstTime(sim_trajs[k]), t) /\ RLe(t, LastTime(sim_trajs[k]))

\* C1 (as claimed): whenever the primary and an intruder are within the
\* safety buffer of each other at some common time inside both time ranges,
\* the call returns status "conflict" with at least one record, for every
\* dt > 0.
C1_ConflictAtAnyCommonTime ==
    (pc = "done" /\ RLt(Zero, dt)) =>
        \A k \in 1..Len(sim_trajs) :
            (\E t \in ProbeTimes : InBothRanges(k, t) /\ Below(SepSq(k, t)))
            => (result[1].status = "conflict" /\ Len(result[1].conflicts) >= 1)

\* C1 (amended): whenever the primary and an intruder are strictly within
\* the safety buffer of each other at a sampled instant overlap_start + j*dt
\* (j >= 0) of the half-open temporal overlap, the call returns status
\* "conflict" with at least one record, for every dt > 0.
C1_ConflictAtSampledInstant ==
    (pc = "done" /\ RLt(Zero, dt)) =>
        \A k \in 1..Len(sim_trajs) :
            (\E t \in GridInstants(k) : Below(SepSq(k, t)))
            => (result[1].status = "conflict" /\ Len(result[1].conflicts) >= 1)

\* C1 witness: a call returned "conflict" for an intruder under the buffer
\* at a sampled instant other than the first one.
C1_Witness ==
    /\ pc = "done"
    /\ RLt(Zero, dt)
    /\ \E k \in 1..Len(sim_trajs) : \E t \in GridInstants(k) :
          /\ t # OvStart(k)
          /\ Below(SepSq(k, t))
          /\ ~Below(SepSq(k, OvStart(k)))
    /\ result[1].status = "conflict"

\* C2: every record's time t lies in the half-open overlap of its intruder,
\* max(primary.t0, intruder.t0) <= t < min(primary.t1, intruder.t1); a run
\* over intruders whose overlaps are all empty or inverted does not fail,
\* appends nothing and returns status "clear" with an empty list.
C2_RecordsInsideOverlap ==
    /\ RecordsMatchOrigin
    /\ \A r \in 1..Len(conflicts) :
          /\ RLe(OvStart(origin[r][1]), origin[r][2])
          /\ RLt(origin[r][2], OvEnd(origin[r][1]))
    /\ (\A k \in 1..Len(sim_trajs) : RLe(OvEnd(k), OvStart(k))) =>
          /\ pc # "raised"
          /\ conflicts = <<>>
          /\ Returned => result[1] = [status |-> "clear", conflicts |-> <<>>]

\* C2 witness: the call returned for intruders none of which overlaps the
\* primary, one of them touching it at a single instant at which the two
\* are under the buffer.
C2_Witness ==
    /\ pc = "done"
    /\ Len(sim_trajs) >= 1
    /\ \A k \in 1..Len(sim_trajs) : RLe(OvEnd(k), OvStart(k))
    /\ \E k \in 1..Len(sim_trajs) :
          OvEnd(k) = OvStart(k) /\ Below(SepSq(k, OvStart(k)))
    /\ result[1].status = "clear"

\* C3: for dt > 0 and each intruder with a non-empty overlap, once its pass
\* is over the records of that intruder correspond one to one to the grid
\* instants overlap_start + j*dt < overlap_end whose sampled distance is
\* strictly below the buffer (none for a distance equal to the buffer, one
\* each for adjacent instants), and each record carries that instant, both
\* sampled positions and a distance >= 0 and < safety_buffer_m.
C3_OneRecordPerViolatingInstant ==
    RLt(Zero, dt) =>
        /\ RecordsMatchOrigin
        /\ \A r1, r2 \in 1..Len(origin) : origin[r1] = origin[r2] => r1 = r2
        /\ \A k \in Processed :
              RLt(OvStart(k), OvEnd(k)) =>
                 \A t \in GridInstants(k) :
                    Below(SepSq(k, t)) <=> (\E r \in 1..Len(origin) : origin[r] = <<k, t>>)
        /\ \A r \in 1..Len(conflicts) :
              LET k == origin[r][1]
                  t == origin[r][2]
              IN  /\ t \in GridInstants(k)
                  /\ conflicts[r].conflict_positions =
                        <<[primary |-> sample_position_at(primary_traj, t),
                           sim |-> sample_position_at(sim_trajs[k], t)]>>
                  /\ conflicts[r].min_distance_m = SepSq(k, t)
                  /\ RLe(Zero, conflicts[r].min_distance_m)
                  /\ Below(conflicts[r].min_distance_m)

\* C3 witness: one intruder left two records at adjacent grid instants, and
\* an intruder at a distance equal to the buffer at a grid instant left none
\* there.
C3_Witness ==
    /\ pc = "done"
    /\ RLt(Zero, dt)
    /\ \E r \in 1..(Len(origin) - 1) :
          /\ origin[r][1] = origin[r + 1][1]
          /\ origin[r + 1][2] = RAdd(origin[r][2], dt)
    /\ \E k \in 1..Len(sim_trajs) : \E t \in GridInstants(k) :
          /\ SepSq(k, t) = RMul(safety_buffer_m, safety_buffer_m)
          /\ \A r \in 1..Len(origin) : origin[r] # <<k, t>>

StatusMatches(report) ==
    /\ report.status \in {"clear", "conflict"}
    /\ report.status = "conflict" <=> report.conflicts # <<>>
    /\ report.status = "clear" <=> report.conflicts = <<>>

\* C4: in every report returned by check_spatiotemporal_conflicts, by
\* format_conflict_report and by analyze_mission, status is "conflict" iff
\* the conflicts list is non-empty and "clear" iff it is empty; the status
\* analyze_mission returns first equals the status of the report it returns.
C4_StatusIffConflicts ==
    /\ result # NoValue => StatusMatches(result[1])
    /\ formatted # NoValue => StatusMatches(formatted[1])
    /\ am_return # NoValue =>
          /\ StatusMatches(am_return[1][2])
          /\ am_return[1][1] = am_return[1][2].status

\* C4 witness: analyze_mission returned "conflict" with a non-empty list.
C4_Witness ==
    /\ pc = "returned"
    /\ am_return[1][1] = "conflict"
    /\ Len(am_return[1][2].conflicts) >= 1

\* C5: the conflicts list is ordered by intruder position in sim_trajs, and
\* by strictly ascending time within one intruder.
C5_OrderedByIntruderThenTime ==
    /\ RecordsMatchOrigin
    /\ \A r1, r2 \in 1..Len(origin) :
          r1 < r2 =>
             \/ origin[r1][1] < origin[r2][1]
             \/ /\ origin[r1][1] = origin[r2][1]
                /\ RLt(origin[r1][2], origin[r2][2])
                /\ RLt(Instant(conflicts[r1].time_of_min),
                       Instant(conflicts[r2].time_of_min))

\* C5 witness: a returned list with records of two intruders, two of them
\* from the same intruder.
C5_Witness ==
    /\ pc = "done"
    /\ \E r1, r2, r3 \in 1..Len(origin) :
          /\ r1 < r2 /\ r2 < r3
          /\ origin[r1][1] # origin[r3][1]
          /\ origin[r1][1] = origin[r2][1] \/ origin[r2][1] = origin[r3][1]

\* The arguments are those of the scenario with its window at `start`.
IsScenario(start) ==
    /\ primary_traj.times = <<R(start), R(start + ScenarioWindow)>>
    /\ primary_traj.positions = <<RRow(<<0, 0, 0>>), RRow(<<10, 0, 0>>)>>
    /\ Len(sim_trajs) = 1
    /\ sim_trajs[1].times = <<R(start), R(start + ScenarioWindow)>>
    /\ sim_trajs[1].positions = <<RRow(<<5, -5, 0>>), RRow(<<5, 5, 0>>)>>
    /\ safety_buffer_m = R(1)
    /\ dt = R(1)

\* C6: primary (0,0,0)->(10,0,0) and intruder (5,-5,0)->(5,5,0) over the
\* same 10 s window, buffer 1.0, dt 1.0: the call returns "conflict" with a
\* record at start + 5 s whose two positions are (5,0,0) and whose
\* min_distance_m is 0.0.
C6_ScenarioConflictAtMidpoint ==
    \A start \in 0..MaxT :
        (pc = "done" /\ IsScenario(start)) =>
            /\ result[1].status = "conflict"
            /\ \E r \in 1..Len(result[1].conflicts) :
                  LET c == result[1].conflicts[r]
                  IN  /\ Instant(c.time_of_min) = R(start + 5)
                      /\ Len(c.conflict_positions) = 1
                      /\ c.conflict_positions[1].primary = RRow(<<5, 0, 0>>)
                      /\ c.conflict_positions[1].sim = RRow(<<5, 0, 0>>)
                      /\ c.min_distance_m = Zero

\* C6 witness: the call on the scenario returned.
C6_Witness ==
    /\ pc = "done"
    /\ \E start \in 0..MaxT : IsScenario(start)
    /\ Len(result[1].conflicts) >= 1

-----------------------------------------------------------------------------
(* The trajectory builder (traject.py, interpolate_from_waypoints).        *)
(* A Waypoint is a record [x, y, z, t] with z and t optional; a datetime   *)
(* is a record [s, us]: whole seconds since the epoch and microseconds.    *)

Waypoint(x, y, z, t) == [x |-> x, y |-> y, z |-> z, t |-> t]

DateTime(s, us) == [s |-> s, us |-> us]

\* datetime.timestamp(): seconds since the epoch as a float.
timestamp(d) == RAdd(R(d.s), Rat(d.us, 1000000))

\* (a - b).total_seconds(): the timedelta in microseconds, over 10**6.
total_seconds(a, b) == Rat((a.s - b.s) * 1000000 + (a.us - b.us), 1000000)

\* a + b over the least common denominator (the products of RAdd stay small
\* when both denominators are 10**6).
RAddLcm(a, b) ==
    LET l == a[2] * (b[2] \div GCD(a[2], b[2]))
    IN  Rat(a[1] * (l \div a[2]) + b[1] * (l \div b[2]), l)

\* _waypoints_to_positions: missing z becomes 0.0.
waypoints_to_positions(wps) ==
    [k \in 1..Len(wps) |->
        <<R(wps[k].x), R(wps[k].y),
          IF wps[k].z = NoValue THEN Zero ELSE R(wps[k].z[1])>>]

\* The square root of a rational that is the square of a rational (every
\* segment of the generated paths has such a length).
Sqrt(q) ==
    <<CHOOSE r \in 0..q[1] : r * r = q[1], CHOOSE r \in 1..q[2] : r * r = q[2]>>

\* Mutant of seg_lengths: the planar length of each segment.
seg_lengths_planar(positions) ==
    [k \in 1..(Len(positions) - 1) |->
        Sqrt(norm_sq(positions[k + 1], positions[k], 2))]

\* np.linalg.norm(np.diff(positions, axis=0), axis=1)
seg_lengths(positions) ==
    [k \in 1..(Len(positions) - 1) |->
        Sqrt(norm_sq(positions[k + 1], positions[k], 3))]

RECURSIVE np_sum(_)
np_sum(s) == IF s = <<>> THEN Zero ELSE RAdd(np_sum(SubSeq(s, 1, Len(s) - 1)), s[Len(s)])

\* np.concatenate([[0.0], np.cumsum(seg_lengths)])
cum_dist(seg) == [k \in 1..(Len(seg) + 1) |-> np_sum(SubSeq(seg, 1, k - 1))]

\* The tolerance of the speed test.
SpeedTolerance == Rat(1, 1000000)

\* Raising with a message, and returning a value.
Raise(msg) == [ok |-> FALSE, val |-> <<msg>>]
Ok(v) == [ok |-> TRUE, val |-> v]

\* Mutant of compute_times_from_window: the cumulative distance taken as
\* the elapsed time (a speed of 1 m/s whatever the window).
compute_times_unit_speed(positions, window, speed) ==
    LET start_dt   == window[1]
        end_dt     == window[2]
        duration_s == total_seconds(end_dt, start_dt)
    IN  IF RLe(duration_s, Zero)
        THEN Raise("mission_window duration must be positive")
        ELSE LET seg        == seg_lengths(positions)
                 total_dist == np_sum(seg)
             IN  IF RLe(total_dist, Zero)
                 THEN Ok(np_linspace(timestamp(start_dt), timestamp(end_dt),
                                     Len(positions)))
                 ELSE LET required_speed == RDiv(total_dist, duration_s)
                          cum            == cum_dist(seg)
                      IN  IF /\ speed # NoValue
                             /\ RLt(RAddLcm(speed[1], SpeedTolerance), required_speed)
                          THEN Raise("Required speed exceeds max_speed_mps")
                          ELSE Ok([k \in 1..Len(cum) |->
                                     RAdd(timestamp(start_dt), cum[k])])

\* _compute_times_from_window
compute_times_from_window(positions, window, speed) ==
    LET start_dt   == window[1]
        end_dt     == window[2]
        duration_s == total_seconds(end_dt, start_dt)
    IN  IF RLe(duration_s, Zero)
        THEN Raise("mission_window duration must be positive")
        ELSE LET seg        == seg_lengths(positions)
                 total_dist == np_sum(seg)
             IN  IF RLe(total_dist, Zero)
                 THEN Ok(np_linspace(timestamp(start_dt), timestamp(end_dt),
                                     Len(positions)))
                 ELSE LET required_speed == RDiv(total_dist, duration_s)
                          cum            == cum_dist(seg)
                      IN  IF /\ speed # NoValue
                             /\ RLt(RAddLcm(speed[1], SpeedTolerance), required_speed)
                          THEN Raise("Required speed exceeds max_speed_mps")
                          ELSE Ok([k \in 1..Len(cum) |->
                                     RAdd(timestamp(start_dt),
                                          RMul(RDiv(cum[k], total_dist), duration_s))])

\* Trajectory.__post_init__ on the arrays the builder passes: positions is
\* (N, 3) and times has N entries by construction, which leaves the test of
\* np.diff(times) <= 0.
post_init_error_arrays(times, positions) ==
    IF \E k \in 1..Len(positions) : Len(positions[k]) # 3
    THEN "positions must be of shape (N, 3)"
    ELSE IF Len(times) # Len(positions)
         THEN "times and positions length mismatch"
    ELSE IF \E k \in 1..(Len(times) - 1) : RLe(times[k + 1], times[k])
         THEN "times must be strictly increasing"
    ELSE ""

\* Line 205: Trajectory(times=times, positions=positions, flight_id=flight_id)
\* The field `times` of the result holds the local `times` of the builder.
build_trajectory(times, positions, flight_id) ==
    IF post_init_error_arrays(times, positions) # ""
    THEN [ok |-> FALSE, val |-> <<post_init_error_arrays(times, positions)>>,
          times |-> Some(times)]
    ELSE [ok |-> TRUE,
          val |-> [times |-> times, positions |-> positions,
                   flight_id |-> flight_id],
          times |-> Some(times)]

Failed(msg) == [ok |-> FALSE, val |-> <<msg>>, times |-> NoValue]


\* Lines 188-205 of the builder, after the two entry checks.
interpolate_body(wps, window, speed, flight_id) ==
    LET positions == waypoints_to_positions(wps) IN
    IF \E k \in 1..Len(wps) : wps[k].t # NoValue
    THEN IF ~(\A k \in 1..Len(wps) : wps[k].t # NoValue)
         THEN Failed("Either all or none of the waypoints must have t set")
         ELSE build_trajectory([k \in 1..Len(wps) |-> timestamp(wps[k].t[1])],
                               positions, flight_id)
    ELSE IF window = NoValue
         THEN Failed("mission_window is required when waypoints have no times")
         ELSE LET r == compute_times_from_window(positions, window[1], speed)
              IN  IF r.ok THEN build_trajectory(r.val, positions, flight_id)
                  ELSE Failed(r.val[1])

\* Mutant of interpolate_from_waypoints: the timing mode chosen by the first
\* waypoint alone.
interpolate_by_first_waypoint(wps, meth, window, speed, flight_id) ==
    IF meth # "linear"
    THEN Failed("Only linear interpolation is supported at this stage")
    ELSE IF Len(wps) < 2
    THEN Failed("Need at least 2 waypoints to build a trajectory")
    ELSE IF wps[1].t # NoValue
    THEN interpolate_body(wps, window, speed, flight_id)
    ELSE IF window = NoValue
    THEN Failed("mission_window is required when waypoints have no times")
    ELSE LET positions == waypoints_to_positions(wps)
             r == compute_times_from_window(positions, window[1], speed)
         IN  IF r.ok THEN build_trajectory(r.val, positions, flight_id)
             ELSE Failed(r.val[1])

\* Mutant of interpolate_from_waypoints: a mission window, when given, times
\* the waypoints even if they carry timestamps.
interpolate_window_first(wps, meth, window, speed, flight_id) ==
    IF meth # "linear"
    THEN Failed("Only linear interpolation is supported at this stage")
    ELSE IF Len(wps) < 2
    THEN Failed("Need at least 2 waypoints to build a trajectory")
    ELSE IF window # NoValue /\ (\A k \in 1..Len(wps) : wps[k].t # NoValue)
    THEN interpolate_body([k \in 1..Len(wps) |-> [wps[k] EXCEPT !.t = NoValue]],
                          window, speed, flight_id)
    ELSE interpolate_body(wps, window, speed, flight_id)

\* Mutant of interpolate_from_waypoints: no test of the number of waypoints.
interpolate_any_length(wps, meth, window, speed, flight_id) ==
    IF meth # "linear"
    THEN Failed("Only linear interpolation is supported at this stage")
    ELSE IF Len(wps) < 1
    THEN Failed("Need at least 2 waypoints to build a trajectory")
    ELSE interpolate_body(wps, window, speed, flight_id)

\* interpolate_from_waypoints: [ok, val, times] with val the Trajectory when
\* ok and the error otherwise; times holds the local `times` once assigned.
interpolate_from_waypoints(wps, meth, window, speed, flight_id) ==
    IF meth # "linear"
    THEN Failed("Only linear interpolation is supported at this stage")
    ELSE IF Len(wps) < 2
    THEN Failed("Need at least 2 waypoints to build a trajectory")
    ELSE interpolate_body(wps, window, speed, flight_id)



-----------------------------------------------------------------------------
(* Calls of the builder, and the sampling of the trajectory it returns.    *)

\* Places of the generated waypoints <<x, y, z>>, the first without an
\* altitude; they are 5, 12 and 13 apart.
Spot0 == <<0, 0, NoValue>>
Spot1 == <<3, 4, Some(0)>>
Spot2 == <<3, 4, Some(12)>>

WaypointPaths ==
    {<<>>, <<Spot0>>, <<Spot0, Spot1>>, <<Spot0, Spot0>>, <<Spot0, Spot2>>,
     <<Spot0, Spot1, Spot2>>, <<Spot0, Spot0, Spot1>>, <<Spot0, Spot0, Spot0>>}

\* The whole seconds 0..MaxT as datetimes.
Instants == {DateTime(sec, 0) : sec \in 0..MaxT}

\* The timestamps given to the n waypoints of a path: none, every choice of
\* one instant per waypoint, and the mixed lists in which exactly one
\* waypoint lacks, or exactly one carries, a timestamp.
Stamps(n) ==
    {[k \in 1..n |-> NoValue]}
    \cup {[k \in 1..n |-> Some(f[k])] : f \in [1..n -> Instants]}
    \cup (IF n < 2 THEN {}
          ELSE {[k \in 1..n |-> IF k = m THEN NoValue ELSE Some(DateTime(k - 1, 0))] :
                    m \in 1..n}
               \cup {[k \in 1..n |-> IF k = m THEN Some(DateTime(0, 0)) ELSE NoValue] :
                    m \in 1..n})

WaypointLists ==
    UNION {{[k \in 1..Len(path) |->
                Waypoint(path[k][1], path[k][2], path[k][3], st[k])] :
            st \in Stamps(Len(path))} : path \in WaypointPaths}

Methods == {"linear", "cubic"}

\* mission_window: None, every pair of whole seconds (inverted and empty
\* ones included) and one window that begins on a half second.
Windows ==
    {NoValue}
    \cup {Some(<<a, b>>) : a \in Instants, b \in Instants}
    \cup {Some(<<DateTime(0, 500000), DateTime(MaxT, 0)>>)}

\* max_speed_mps: None, a generous limit, and two limits just under 5 m/s,
\* one inside and one outside the tolerance.
SpeedLimits ==
    {NoValue, Some(R(20)), Some(Rat(4999999, 1000000)), Some(Rat(4999998, 1000000))}

InitBuild ==
    /\ waypoints \in WaypointLists
    /\ method \in Methods
    /\ mission_window \in Windows
    /\ max_speed_mps \in SpeedLimits
    /\ wp_times = NoValue
    /\ raw_times = <<>>
    /\ raw_positions = <<>>
    /\ tpc = "call"
    /\ traj = NoValue
    /\ op = "none"
    /\ arg = Zero
    /\ out = [ok |-> TRUE, val |-> <<>>]
    /\ DetIdle
    /\ SpatIdle
    /\ AnaIdle
    /\ CmpIdle

\* The call of the state, as the code evaluates it.
Called ==
    interpolate_from_waypoints(waypoints, method, mission_window,
                               max_speed_mps, "primary")

\* interpolate_from_waypoints returns a Trajectory
Interpolate ==
    /\ tpc = "call"
    /\ Called.ok
    /\ traj' = Some(Called.val)
    /\ wp_times' = Called.times
    /\ tpc' = "built"
    /\ UNCHANGED <<raw_times, raw_positions, op, arg, out>>
    /\ UNCHANGED <<waypoints, method, mission_window, max_speed_mps>>
    /\ UNCHANGED <<detVars, spatVars, anaVars, cmpVars>>

\* interpolate_from_waypoints raises
InterpolateRaise ==
    /\ tpc = "call"
    /\ ~Called.ok
    /\ out' = [ok |-> FALSE, val |-> Called.val]
    /\ wp_times' = Called.times
    /\ tpc' = "raised"
    /\ UNCHANGED <<raw_times, raw_positions, traj, op, arg>>
    /\ UNCHANGED <<waypoints, method, mission_window, max_speed_mps>>
    /\ UNCHANGED <<detVars, spatVars, anaVars, cmpVars>>

NextBuild ==
    \/ Interpolate
    \/ InterpolateRaise
    \/ SampleAt
    \/ SampleUniform

SpecBuild == InitBuild /\ [][NextBuild]_vars


-----------------------------------------------------------------------------
(* Claims about the builder (checked under SpecBuild).                     *)

\* What the claims speak of, stated on the arguments of the call.
Stamped(k) == waypoints[k].t # NoValue
AllStamped == \A k \in 1..Len(waypoints) : Stamped(k)
NoneStamped == \A k \in 1..Len(waypoints) : ~Stamped(k)
MixedStamps ==
    /\ \E k \in 1..Len(waypoints) : Stamped(k)
    /\ \E k \in 1..Len(waypoints) : ~Stamped(k)

\* A datetime on the numeric time base: its microseconds since the epoch,
\* over 10**6.
Seconds(d) == Rat(d.s * 1000000 + d.us, 1000000)

WindowStart == Seconds(mission_window[1][1])
WindowEnd == Seconds(mission_window[1][2])
WindowGiven == mission_window # NoValue
ValidWindow == WindowGiven /\ RLt(WindowStart, WindowEnd)

\* The place of waypoint k, a missing altitude read as 0.
Place(k) ==
    <<R(waypoints[k].x), R(waypoints[k].y),
      IF waypoints[k].z = NoValue THEN Zero ELSE R(waypoints[k].z[1])>>
Places == [k \in 1..Len(waypoints) |-> Place(k)]

\* The 3-D length of the leg from waypoint k to waypoint k + 1.
LegLength(k) ==
    LET d(c) == RSub(Place(k + 1)[c], Place(k)[c])
        sq   == RAdd(RAdd(RMul(d(1), d(1)), RMul(d(2), d(2))), RMul(d(3), d(3)))
    IN  CHOOSE len \in {R(m) : m \in 0..sq[1]} : RMul(len, len) = sq

\* The 3-D path length from waypoint 1 to waypoint k.
RECURSIVE PathLength(_)
PathLength(k) == IF k <= 1 THEN Zero ELSE RAdd(PathLength(k - 1), LegLength(k - 1))

TotalLength == PathLength(Len(waypoints))

\* total_distance / duration exceeds max_speed_mps by more than 1e-6.
TooFast ==
    /\ max_speed_mps # NoValue
    /\ RLt(RAddLcm(max_speed_mps[1], Rat(1, 1000000)),
           RDiv(TotalLength, RSub(WindowEnd, WindowStart)))

Increasing(ts) == \A k \in 1..(Len(ts) - 1) : RLt(ts[k], ts[k + 1])

\* The call is over.
Answered == tpc \in {"built", "raised"}

\* C11: when every one of two or more waypoints carries t (method linear),
\* the outcome of interpolate_from_waypoints is decided by the waypoints
\* alone, whatever mission_window (None, valid, inverted) and max_speed_mps
\* are: it returns the trajectory whose times are exactly the waypoints'
\* timestamps in waypoint order (with the waypoints' places), or, if those
\* timestamps do not increase strictly, raises for that reason.
C11_AbsoluteTimesAreTheStamps ==
    (Answered /\ method = "linear" /\ Len(waypoints) >= 2 /\ AllStamped) =>
        LET stamps == [k \in 1..Len(waypoints) |-> Seconds(waypoints[k].t[1])]
        IN  /\ wp_times = Some(stamps)
            /\ tpc = "built" <=> Increasing(stamps)
            /\ tpc = "built" =>
                  traj[1] = [times |-> stamps, positions |-> Places,
                             flight_id |-> "primary"]
            /\ tpc = "raised" =>
                  /\ traj = NoValue
                  /\ out.val = <<"times must be strictly increasing">>

\* C11 witness: a trajectory returned for stamped waypoints although the
\* window passed is inverted and the speed limit is below what the path
\* would need over any window.
C11_Witness ==
    /\ tpc = "built"
    /\ Len(waypoints) = 3
    /\ AllStamped
    /\ WindowGiven
    /\ RLt(WindowEnd, WindowStart)
    /\ max_speed_mps = Some(Rat(4999998, 1000000))
    /\ traj[1].times = <<R(0), R(1), R(2)>>

\* C12: in window-derived mode (no waypoint has t, two or more waypoints,
\* valid window, speed limit not exceeded) with a positive total path
\* length, the time assigned to waypoint i is
\* start + (3-D path length up to i / total path length) * (end - start);
\* the first is start, the last is end, and the times never decrease.
C12_TimesProportionalToPathLength ==
    ( /\ Answered /\ method = "linear" /\ Len(waypoints) >= 2 /\ NoneStamped
      /\ ValidWindow
      /\ RLt(Zero, TotalLength)
      /\ ~TooFast )
    => /\ wp_times # NoValue
       /\ LET ts == wp_times[1]
              n  == Len(waypoints)
          IN  /\ Len(ts) = n
              /\ \A k \in 1..n :
                    ts[k] = RAdd(WindowStart,
                                 RMul(RDiv(PathLength(k), TotalLength),
                                      RSub(WindowEnd, WindowStart)))
              /\ ts[1] = WindowStart
              /\ ts[n] = WindowEnd
              /\ \A k \in 1..(n - 1) : RLe(ts[k], ts[k + 1])

\* C12 witness: three waypoints, the last leg a pure climb, over a window
\* that begins on a half second; the middle time lies strictly inside.
C12_Witness ==
    /\ tpc = "built"
    /\ NoneStamped
    /\ Len(waypoints) = 3
    /\ waypoints[2].z # waypoints[3].z
    /\ waypoints[2].x = waypoints[3].x
    /\ WindowStart = Rat(1, 2)
    /\ RLt(WindowStart, wp_times[1][2])
    /\ RLt(wp_times[1][2], WindowEnd)

\* C13 (as claimed): in window-derived mode (no waypoint has t, two or more
\* waypoints, window end strictly after start) with a max_speed_mps, the
\* call fails when total_distance / duration exceeds max_speed_mps by more
\* than 1e-6 and returns a Trajectory whenever it does not.
C13_SpeedLimitDecides ==
    ( /\ Answered /\ method = "linear" /\ Len(waypoints) >= 2 /\ NoneStamped
      /\ ValidWindow
      /\ max_speed_mps # NoValue )
    => IF TooFast THEN tpc = "raised" /\ traj = NoValue
       ELSE tpc = "built" /\ traj # NoValue


\* C14: a waypoint list in which some but not all waypoints carry t makes
\* the call fail before any time is assigned, whatever mission_window
\* (None, valid, inverted) and max_speed_mps are: no Trajectory is returned
\* and, the method being linear, the error is the mixed-timestamp one.
C14_MixedStampsFailFirst ==
    (Answered /\ MixedStamps) =>
        /\ tpc = "raised"
        /\ traj = NoValue
        /\ ~out.ok
        /\ wp_times = NoValue
        /\ method = "linear" =>
              out.val = <<"Either all or none of the waypoints must have t set">>

\* C14 witness: the mixed-timestamp error for a list whose first waypoint
\* has no t, called with a valid window and a speed limit the path meets.
C14_Witness ==
    /\ tpc = "raised"
    /\ MixedStamps
    /\ ~Stamped(1)
    /\ ValidWindow
    /\ max_speed_mps = Some(R(20))
    /\ out.val = <<"Either all or none of the waypoints must have t set">>

\* C15: interpolate_from_waypoints raises and returns no Trajectory when
\* given fewer than 2 waypoints, a method other than "linear", or untimed
\* waypoints with mission_window missing or with end not strictly after
\* start; sample_uniform raises and returns no grid when dt_s <= 0.
C15_InvalidInputRaises ==
    /\ ( /\ Answered
         /\ \/ Len(waypoints) < 2
            \/ method # "linear"
            \/ NoneStamped /\ (~WindowGiven \/ RLe(WindowEnd, WindowStart)) )
       => (tpc = "raised" /\ traj = NoValue /\ ~out.ok)
    /\ (tpc = "built" /\ op = "sample_uniform" /\ RLe(arg, Zero))
       => (~out.ok /\ out.val = <<"dt_s must be positive">>)

\* C15 witness: the call raised for a single waypoint that carries t, the
\* method being linear.
C15_Witness ==
    /\ tpc = "raised"
    /\ Len(waypoints) = 1
    /\ Stamped(1)
    /\ method = "linear"
    /\ out.val = <<"Need at least 2 waypoints to build a trajectory">>

\* C16: for two untimed waypoints P0, P1 built in window-derived mode over
\* [start, start + T], T > 0, sample_position_at at start + T/2 returns
\* (P0 + P1)/2 in all three coordinates.
C16_MidpointAtMidTime ==
    ( /\ tpc = "built"
      /\ Len(waypoints) = 2
      /\ NoneStamped
      /\ op = "sample_position_at"
      /\ arg = RDiv(RAdd(WindowStart, WindowEnd), R(2)) )
    => /\ out.ok
       /\ out.val = [c \in 1..3 |-> RDiv(RAdd(Place(1)[c], Place(2)[c]), R(2))]

\* C16 witness: the midpoint query answered for two waypoints that differ in
\* all three coordinates, over a window that does not begin at 0.
C16_Witness ==
    /\ tpc = "built"
    /\ Len(waypoints) = 2
    /\ NoneStamped
    /\ op = "sample_position_at"
    /\ RLt(Zero, WindowStart)
    /\ arg = RDiv(RAdd(WindowStart, WindowEnd), R(2))
    /\ \A c \in 1..3 : Place(1)[c] # Place(2)[c]
    /\ out.val = <<Rat(3, 2), R(2), R(6)>>


-----------------------------------------------------------------------------
(* The pairwise spatial checker (spatial.py).  A distance is carried as    *)
(* its square, as in the detector.  The parameter use_3d of                *)
(* check_spatial_conflict is never read by its body.                       *)

\* Mutant of spatial_dt_s: a 2-second grid.
spatial_dt_coarse == R(2)

\* The step of the two sample_uniform calls (dt_s=1.0).
spatial_dt_s == R(1)

SetOf(seq) == {seq[k] : k \in 1..Len(seq)}

\* np.array([...]): the array holding the listed values.
np_array(seq) == <<>> \o seq

\* The elements of a finite set of floats in ascending order.
Ascending(S) ==
    np_array([k \in 1..Cardinality(S) |->
                CHOOSE x \in S : Cardinality({y \in S : RLt(y, x)}) = k - 1])

\* Mutant of np_union1d: the first grid alone.
first_grid_only(a, b) == Ascending(SetOf(a))

\* np.union1d(a, b): the sorted unique values of both arrays.
np_union1d(a, b) == Ascending(SetOf(a) \cup SetOf(b))

\* Mutant of planar: the slice [0:1].
slice_x(pos) == SubSeq(pos, 1, 1)

\* The slice [0:2] of a sampled position.
planar(pos) == SubSeq(pos, 1, 2)

\* The square of np.linalg.norm(a - b) for two rows of equal length.
row_norm_sq(a, b) ==
    np_sum([k \in 1..Len(a) |-> RMul(RSub(a[k], b[k]), RSub(a[k], b[k]))])

\* np.min(distances)
np_min(d) == CHOOSE m \in SetOf(d) : \A k \in 1..Len(d) : RLe(m, d[k])

\* np.argmin(distances): the first index of the minimum.
np_argmin(d) ==
    CHOOSE k \in 1..Len(d) :
        /\ \A j \in 1..Len(d) : RLe(d[k], d[j])
        /\ \A j \in 1..(k - 1) : RLt(d[k], d[j])

\* [traj.sample_position_at(t)[0:2] for t in common_times]
resampled(T, common_times) ==
    np_array([k \in 1..Len(common_times) |->
                planar(sample_position_at(T, common_times[k]))])

distances(pos_A, pos_B) ==
    np_array([k \in 1..Len(pos_A) |-> row_norm_sq(pos_A[k], pos_B[k])])

\* check_spatial_conflict, lines 48-59: the pair (conflict_detected, details).
spatial_details(buffer, common_times, pos_A_resampled, pos_B_resampled, min_dist, min_dist_idx) ==
    Ok(<<norm_lt(min_dist, buffer),
         [min_distance_m    |-> min_dist,
          min_position_A    |-> pos_A_resampled[min_dist_idx],
          min_position_B    |-> pos_B_resampled[min_dist_idx],
          t_A_at_min        |-> common_times[min_dist_idx],
          t_B_at_min        |-> common_times[min_dist_idx],
          conflict_detected |-> norm_lt(min_dist, buffer)]>>)

\* check_spatial_conflict, lines 43-46
spatial_minimum(buffer, common_times, pos_A_resampled, pos_B_resampled, ds) ==
    spatial_details(buffer, common_times, pos_A_resampled, pos_B_resampled,
                    np_min(ds), np_argmin(ds))

\* check_spatial_conflict, line 41
spatial_distances(buffer, common_times, pos_A_resampled, pos_B_resampled) ==
    spatial_minimum(buffer, common_times, pos_A_resampled, pos_B_resampled,
                    distances(pos_A_resampled, pos_B_resampled))

\* check_spatial_conflict, lines 35-38
spatial_on_grid(A, B, buffer, common_times) ==
    spatial_distances(buffer, common_times,
                      resampled(A, common_times), resampled(B, common_times))

\* check_spatial_conflict, lines 30-34, given what the two sample_uniform
\* calls returned or raised
spatial_sampled(A, B, buffer, ua, ub) ==
    IF ~ua.ok THEN Raise(ua.val[1])
    ELSE IF ~ub.ok THEN Raise(ub.val[1])
    ELSE spatial_on_grid(A, B, buffer, np_union1d(ua.val[1], ub.val[1]))

\* check_spatial_conflict: the pair (conflict_detected, details), or the
\* error of the first sample_uniform call that raises.
check_spatial_conflict(A, B, buffer, flag3d) ==
    spatial_sampled(A, B, buffer,
                    sample_uniform(A, spatial_dt_s), sample_uniform(B, spatial_dt_s))

\* closest_approach, lines 92-98
approach_tuple(common_times, pos_A_resampled, pos_B_resampled, min_dist, min_dist_idx) ==
    Ok(<<min_dist, common_times[min_dist_idx], common_times[min_dist_idx],
         pos_A_resampled[min_dist_idx], pos_B_resampled[min_dist_idx]>>)

\* closest_approach, lines 89-90
approach_minimum(common_times, pos_A_resampled, pos_B_resampled, ds) ==
    approach_tuple(common_times, pos_A_resampled, pos_B_resampled,
                   np_min(ds), np_argmin(ds))

\* closest_approach, line 87
approach_distances(common_times, pos_A_resampled, pos_B_resampled) ==
    approach_minimum(common_times, pos_A_resampled, pos_B_resampled,
                     distances(pos_A_resampled, pos_B_resampled))

\* Mutant of approach_on_grid: the two resampled arrays exchanged.
approach_on_grid_swapped(A, B, common_times) ==
    approach_distances(common_times,
                       resampled(B, common_times), resampled(A, common_times))

\* closest_approach, lines 81-84
approach_on_grid(A, B, common_times) ==
    approach_distances(common_times,
                       resampled(A, common_times), resampled(B, common_times))

\* closest_approach, lines 76-80, given what the two sample_uniform calls
\* returned or raised
approach_sampled(A, B, ua, ub) ==
    IF ~ua.ok THEN Raise(ua.val[1])
    ELSE IF ~ub.ok THEN Raise(ub.val[1])
    ELSE approach_on_grid(A, B, np_union1d(ua.val[1], ub.val[1]))

\* closest_approach: (min_dist, t_A_at_min, t_B_at_min, posA, posB), or the
\* error of the first sample_uniform call that raises.
closest_approach(A, B) ==
    approach_sampled(A, B,
                     sample_uniform(A, spatial_dt_s), sample_uniform(B, spatial_dt_s))

-----------------------------------------------------------------------------
(* Calls of the spatial checker.                                           *)

\* Paths of the generated pairs: east and west along y = 0, north along
\* x = 1, east along y = 2, east along y = 0 at altitude 2, and west then
\* east again.
NorthPath == <<<<1, -1, 0>>, <<1, 1, 0>>>>
OffsetPath == <<<<0, 2, 0>>, <<2, 2, 0>>>>
HighPath == <<<<0, 0, 2>>, <<2, 0, 2>>>>
SpatialPaths ==
    {<<PointA, PointB>>, <<PointB, PointA>>, NorthPath, OffsetPath, HighPath,
     <<PointB, PointA, PointB>>}

\* A Trajectory of one sample (the constructor accepts it) and one that
\* lasts a second and a half.
OneSample == Trajectory(<<0>>, <<PointA>>, "primary")
Fractional ==
    [times |-> <<R(0), Rat(3, 2)>>,
     positions |-> <<RRow(PointB), RRow(PointA)>>,
     flight_id |-> "primary"]

SpatialTrajs == TrajsOver(SpatialPaths, "primary") \cup {OneSample, Fractional}

SpatialBuffers == {R(0), Rat(1, 2), R(1), R(2)}

InitSpatial ==
    /\ traj_A \in SpatialTrajs
    /\ traj_B \in SpatialTrajs
    /\ buffer_m \in SpatialBuffers
    /\ use_3d \in BOOLEAN
    /\ spc = "call"
    /\ checked = NoValue
    /\ approach = NoValue
    /\ primary_traj = NoValue
    /\ sim_trajs = <<>>
    /\ safety_buffer_m = Zero
    /\ dt = Zero
    /\ pc = "idle"
    /\ i = 1
    /\ conflicts = <<>>
    /\ origin = <<>>
    /\ result = NoValue
    /\ formatted = NoValue
    /\ am_return = NoValue
    /\ TrajIdle
    /\ BuildIdle
    /\ AnaIdle
    /\ CmpIdle

\* check_spatial_conflict returns
CheckSpatial ==
    /\ spc = "call"
    /\ checked = NoValue
    /\ LET returned == check_spatial_conflict(traj_A, traj_B, buffer_m, use_3d)
       IN  returned.ok /\ checked' = Some(returned.val)
    /\ UNCHANGED <<traj_A, traj_B, buffer_m, spc, approach>>
    /\ UNCHANGED <<detVars, trajVars, buildVars, anaVars, cmpVars>>

\* check_spatial_conflict raises (sample_uniform did)
CheckSpatialRaise ==
    /\ spc = "call"
    /\ checked = NoValue
    /\ ~check_spatial_conflict(traj_A, traj_B, buffer_m, use_3d).ok
    /\ spc' = "raised"
    /\ UNCHANGED <<traj_A, traj_B, buffer_m, checked, approach>>
    /\ UNCHANGED <<detVars, trajVars, buildVars, anaVars, cmpVars>>

\* closest_approach returns
ClosestApproach ==
    /\ spc = "call"
    /\ approach = NoValue
    /\ LET returned == closest_approach(traj_A, traj_B)
       IN  returned.ok /\ approach' = Some(returned.val)
    /\ UNCHANGED <<traj_A, traj_B, buffer_m, spc, checked>>
    /\ UNCHANGED <<detVars, trajVars, buildVars, anaVars, cmpVars>>

\* closest_approach raises (sample_uniform did)
ClosestApproachRaise ==
    /\ spc = "call"
    /\ approach = NoValue
    /\ ~closest_approach(traj_A, traj_B).ok
    /\ spc' = "raised"
    /\ UNCHANGED <<traj_A, traj_B, buffer_m, checked, approach>>
    /\ UNCHANGED <<detVars, trajVars, buildVars, anaVars, cmpVars>>

NextSpatial ==
    \/ CheckSpatial
    \/ CheckSpatialRaise
    \/ ClosestApproach
    \/ ClosestApproachRaise

SpecSpatial == InitSpatial /\ [][NextSpatial]_vars


-----------------------------------------------------------------------------
(* Claims about the spatial checker (checked under SpecSpatial).           *)

\* The sample grid of a trajectory at a 1-second step: the
\* floor(t1 - t0) + 1 evenly spaced instants from t0 to t1 (t0 alone when
\* the trajectory lasts less than a second).
SampleGrid(T) ==
    LET span  == RSub(LastTime(T), FirstTime(T))
        count == RFloor(span) + 1
    IN  IF count = 1 THEN {FirstTime(T)}
        ELSE {RAdd(FirstTime(T), RMul(Rat(k, count - 1), span)) : k \in 0..(count - 1)}

UnionGrid == SampleGrid(traj_A) \cup SampleGrid(traj_B)

InRange(T, t) == RLe(FirstTime(T), t) /\ RLe(t, LastTime(T))

\* The (x, y) of a trajectory at t, held at its first or last position
\* outside its own range.
PlanarAt(T, t) ==
    LET p == IF RLt(t, FirstTime(T)) THEN T.positions[1]
             ELSE IF RLt(LastTime(T), t) THEN T.positions[Len(T.positions)]
             ELSE sample_position_at(T, t)
    IN  <<p[1], p[2]>>

\* The square of the planar distance between the two trajectories at t.
PlanarSepSq(t) ==
    LET a == PlanarAt(traj_A, t)
        b == PlanarAt(traj_B, t)
    IN  RAdd(RMul(RSub(a[1], b[1]), RSub(a[1], b[1])),
             RMul(RSub(a[2], b[2]), RSub(a[2], b[2])))

Flag == checked[1][1]
Details == checked[1][2]

Straight(T) == Len(T.times) = 2

\* The planar direction of a straight path.
Heading(T) ==
    <<RSub(T.positions[2][1], T.positions[1][1]),
      RSub(T.positions[2][2], T.positions[1][2])>>

Dot(u, v) == RAdd(RMul(u[1], v[1]), RMul(u[2], v[2]))
Cross(u, v) == RSub(RMul(u[1], v[2]), RMul(u[2], v[1]))

BothStraight ==
    /\ Straight(traj_A) /\ Straight(traj_B)
    /\ Heading(traj_A) # <<Zero, Zero>> /\ Heading(traj_B) # <<Zero, Zero>>

Perpendicular == BothStraight /\ Dot(Heading(traj_A), Heading(traj_B)) = Zero

\* Both vehicles are at the same (x, y) at t, each within its own range.
MeetAt(t) ==
    /\ InRange(traj_A, t) /\ InRange(traj_B, t)
    /\ PlanarAt(traj_A, t) = PlanarAt(traj_B, t)

\* What the claim promises for a meeting at t.
ZeroAt(t) ==
    /\ Details.min_distance_m = Zero
    /\ Details.min_position_A = PlanarAt(traj_A, t)
    /\ Details.min_position_B = PlanarAt(traj_A, t)
    /\ RLt(Zero, buffer_m) => Flag

\* The half seconds of the horizon.
HalfSeconds == {Rat(j, 2) : j \in 0..(2 * MaxT)}

\* C18 (as claimed): for perpendicular planar paths that cross at a point P
\* both vehicles occupy at the same time, check_spatial_conflict reports
\* min_distance_m = 0 with both positions P, and a conflict for every
\* buffer_m > 0.
C18_CrossingAtAnyTime ==
    (checked # NoValue /\ Perpendicular) =>
        \A t \in HalfSeconds : MeetAt(t) => ZeroAt(t)

\* C18 (amended): the same, for a crossing point both vehicles occupy at an
\* instant of the union of the two sample grids.
C18_CrossingAtSampledInstant ==
    (checked # NoValue /\ Perpendicular) =>
        \A t \in UnionGrid : MeetAt(t) => ZeroAt(t)

\* C18 witness: perpendicular paths met at a sampled instant, reported at
\* (1, 0) with distance 0 and flagged under the smallest buffer.
C18_Witness ==
    /\ checked # NoValue
    /\ Perpendicular
    /\ \E t \in UnionGrid : MeetAt(t)
    /\ buffer_m = Rat(1, 2)
    /\ Details.min_distance_m = Zero
    /\ Details.min_position_A = <<R(1), R(0)>>
    /\ Flag

Parallel == BothStraight /\ Cross(Heading(traj_A), Heading(traj_B)) = Zero

\* The square of the planar distance between the lines of two parallel
\* paths.
OffsetSq ==
    LET h == Heading(traj_A)
        w == <<RSub(traj_B.positions[1][1], traj_A.positions[1][1]),
               RSub(traj_B.positions[1][2], traj_A.positions[1][2])>>
    IN  RDiv(RMul(Cross(h, w), Cross(h, w)), Dot(h, h))

OverlapInTime ==
    RLt(RMax(FirstTime(traj_A), FirstTime(traj_B)),
        RMin(LastTime(traj_A), LastTime(traj_B)))

C20_ClosestApproachAgrees ==
    (checked # NoValue /\ approach # NoValue) =>
        /\ approach[1] = <<Details.min_distance_m, Details.t_A_at_min,
                           Details.t_B_at_min, Details.min_position_A,
                           Details.min_position_B>>
        /\ approach[1][2] = approach[1][3]

\* C20 witness: both operations answered for a pair whose closest approach
\* is at a positive distance, attained at more than one instant.
C20_Witness ==
    /\ checked # NoValue
    /\ approach # NoValue
    /\ RLt(Zero, approach[1][1])
    /\ approach[1][4] # approach[1][5]
    /\ \E t \in UnionGrid : t # approach[1][2] /\ PlanarSepSq(t) = approach[1][1]

\* The two trajectories have the same knot times and the same (x, y) at
\* every knot, hence at every instant.
SamePlanarTrack ==
    /\ traj_A.times = traj_B.times
    /\ \A k \in 1..Len(traj_A.positions) :
          /\ traj_A.positions[k][1] = traj_B.positions[k][1]
          /\ traj_A.positions[k][2] = traj_B.positions[k][2]

\* The altitude of traj_B above traj_A at knot k.
AltitudeGap(k) == RSub(traj_B.positions[k][3], traj_A.positions[k][3])

ConstantAltitudeGap ==
    \A k \in 1..Len(traj_A.positions) : AltitudeGap(k) = AltitudeGap(1)

\* C21 (as claimed): with use_3d true, two trajectories with identical x, y
\* at every instant and a constant altitude difference of at least buffer_m
\* are not reported as a conflict by check_spatial_conflict.
C21_AltitudeCounts ==
    ( /\ checked # NoValue
      /\ use_3d
      /\ SamePlanarTrack
      /\ ConstantAltitudeGap
      /\ RLe(Zero, buffer_m)
      /\ RLe(RMul(buffer_m, buffer_m), RMul(AltitudeGap(1), AltitudeGap(1))) )
    => ~Flag

-----------------------------------------------------------------------------
(* The detector as a function of its arguments: what one pass of the       *)
(* for-loop appends, and what the whole call returns.                      *)

\* One pass of the for-loop (temporal.py lines 41-104) for intruder S: the
\* records it appends, or the error np.arange raises on a zero step.
records_for(P, S, buffer, step, flag3d) ==
    IF RLe(overlap_end(P, S), overlap_start(P, S)) THEN Ok(<<>>)
    ELSE IF step = Zero THEN Raise("np.arange: zero step")
    ELSE IF t_grid(P, S, step) = <<>> THEN Ok(<<>>)
    ELSE Ok(np_array(new_conflicts(P, S, buffer, step, flag3d)))

\* The lists of a list of lists joined in order (successive conflicts.append).
RECURSIVE Joined(_)
Joined(lists) ==
    IF lists = <<>> THEN <<>>
    ELSE Joined(SubSeq(lists, 1, Len(lists) - 1)) \o lists[Len(lists)]

\* The first of a list of outcomes that is an error.
first_failed(outcomes) ==
    CHOOSE k \in 1..Len(outcomes) :
        ~outcomes[k].ok /\ \A j \in 1..(k - 1) : outcomes[j].ok

\* What the call returns or raises, given the outcome of every pass.
detect_result(passes) ==
    IF \E k \in 1..Len(passes) : ~passes[k].ok
    THEN Raise(passes[first_failed(passes)].val[1])
    ELSE Ok(report_of(Joined([k \in 1..Len(passes) |-> passes[k].val])))

\* check_spatiotemporal_conflicts as a whole (temporal.py lines 36-109): the
\* dict it returns, or the error of the first pass that raises.
check_spatiotemporal_conflicts(P, sims, buffer, step, flag3d) ==
    detect_result(np_array([k \in 1..Len(sims) |->
                              records_for(P, sims[k], buffer, step, flag3d)]))

-----------------------------------------------------------------------------
(* Claims that compare calls of the detector (checked under Spec).         *)

\* The instants of the records a pass for intruder S appends when the call
\* is made with the given flag, all else as in the call at hand.
ReportedAt(P, S, flag3d) ==
    LET rs == records_for(P, S, safety_buffer_m, dt, flag3d).val
    IN  {Instant(rs[j].time_of_min) : j \in 1..Len(rs)}

\* The instants the call at hand recorded for intruder k.
RecordedFor(k) == {origin[r][2] : r \in {q \in 1..Len(origin) : origin[q][1] = k}}

\* A trajectory with every altitude replaced by 0.
Flat(T) ==
    [T EXCEPT !.positions =
        [k \in 1..Len(T.positions) |-> <<T.positions[k][1], T.positions[k][2], Zero>>]]

\* Squared separations of the primary and intruder k at t: in the plane and
\* in space.
PlaneSepSq(k, t) ==
    LET p == sample_position_at(primary_traj, t)
        q == sample_position_at(sim_trajs[k], t)
    IN  RAdd(RMul(RSub(p[1], q[1]), RSub(p[1], q[1])),
             RMul(RSub(p[2], q[2]), RSub(p[2], q[2])))

SpaceSepSq(k, t) ==
    LET p == sample_position_at(primary_traj, t)
        q == sample_position_at(sim_trajs[k], t)
    IN  RAdd(PlaneSepSq(k, t), RMul(RSub(p[3], q[3]), RSub(p[3], q[3])))

\* C22: with use_3d false the instants recorded for an intruder are those
\* where the (x, y) distance is below the buffer, and they are the same when
\* every altitude is replaced by 0; with use_3d true they are those where
\* the (x, y, z) distance is below the buffer; and every (intruder, instant)
\* recorded with use_3d true is also recorded by the call with use_3d false
\* on the same arguments.
C22_FlagSelectsCoordinates ==
    (pc = "done" /\ RLt(Zero, dt)) =>
        /\ RecordsMatchOrigin
        /\ \A k \in 1..Len(sim_trajs) :
              /\ ~use_3d =>
                    /\ RecordedFor(k) = {t \in GridInstants(k) : Below(PlaneSepSq(k, t))}
                    /\ RecordedFor(k) =
                          ReportedAt(Flat(primary_traj), Flat(sim_trajs[k]), FALSE)
              /\ use_3d =>
                    /\ RecordedFor(k) = {t \in GridInstants(k) : Below(SpaceSepSq(k, t))}
                    /\ RecordedFor(k) \subseteq
                          ReportedAt(primary_traj, sim_trajs[k], FALSE)
        /\ \A r \in 1..Len(conflicts) :
              conflicts[r].min_distance_m =
                 IF use_3d THEN SpaceSepSq(origin[r][1], origin[r][2])
                 ELSE PlaneSepSq(origin[r][1], origin[r][2])

\* C22 witness: a call with use_3d true returned records for an intruder,
\* and left out an instant of that intruder that the call with use_3d false
\* records (the altitude alone keeps the two apart there).
C22_Witness ==
    /\ pc = "done"
    /\ RLt(Zero, dt)
    /\ use_3d
    /\ \E k \in 1..Len(sim_trajs) :
          /\ RecordedFor(k) # {}
          /\ \E t \in ReportedAt(primary_traj, sim_trajs[k], FALSE) :
                t \notin RecordedFor(k)

\* C25 (as claimed): called with dt <= 0, check_spatiotemporal_conflicts
\* (and analyze_mission, which forwards dt) raises and returns no report,
\* whatever the primary and the intruder list are.
C25_NonPositiveStepRaises ==
    RLe(dt, Zero) => ~Returned

\* The overlap of intruder k with the primary is non-empty and shorter than
\* the step.
ShortOverlap(k) ==
    /\ RLt(OvStart(k), OvEnd(k))
    /\ RLt(RSub(OvEnd(k), OvStart(k)), dt)

\* The number of records the call at hand appended for intruder k.
RecordCount(k) == Cardinality({r \in 1..Len(origin) : origin[r][1] = k})

\* C26 (as claimed): an intruder whose overlap with the primary is non-empty
\* but shorter than dt is skipped: it contributes no record, whatever the
\* separation at overlap_start.
C26_ShortOverlapSkipped ==
    \A k \in Processed : ShortOverlap(k) => RecordedFor(k) = {}

\* C26 (amended): an intruder whose overlap with the primary is non-empty
\* but shorter than dt is sampled at exactly one instant, overlap_start: it
\* contributes one record, at overlap_start, when the separation there is
\* below the buffer, and none otherwise; the call does not fail.
C26_ShortOverlapSampledOnce ==
    /\ RecordsMatchOrigin
    /\ \A k \in Processed :
          ShortOverlap(k) =>
             /\ pc # "raised"
             /\ RecordedFor(k) =
                   IF Below(SepSq(k, OvStart(k))) THEN {OvStart(k)} ELSE {}
             /\ RecordCount(k) = Cardinality(RecordedFor(k))

\* C26 witness: the call returned with a record, at overlap_start, for an
\* intruder whose overlap is shorter than dt, and with none for another
\* such intruder that is not under the buffer there.
C26_Witness ==
    /\ pc = "done"
    /\ \E k \in 1..Len(sim_trajs) :
          ShortOverlap(k) /\ RecordedFor(k) = {OvStart(k)}
    /\ \E k \in 1..Len(sim_trajs) :
          ShortOverlap(k) /\ RecordedFor(k) = {}

-----------------------------------------------------------------------------
(* A further claim about the builder (checked under SpecBuild).            *)

\* Every waypoint is at the place of the first one.
AllCoincide == \A k \in 1..Len(waypoints) : Place(k) = Place(1)

\* start + i * (end - start) / (N - 1) for i = 0..N-1.
EvenTimes ==
    [k \in 1..Len(waypoints) |->
        RAddLcm(WindowStart,
                RMul(Rat(k - 1, Len(waypoints) - 1), RSub(WindowEnd, WindowStart)))]

\* C27: when all N >= 2 waypoints, none with t, coincide and the window has
\* end > start, interpolate_from_waypoints returns a trajectory for every
\* max_speed_mps (none included), with the strictly increasing times
\* start + i * (end - start) / (N - 1) and the waypoints' places.
C27_CoincidentWaypointsEvenTimes ==
    ( /\ Answered
      /\ method = "linear"
      /\ Len(waypoints) >= 2
      /\ NoneStamped
      /\ AllCoincide
      /\ ValidWindow )
    => /\ tpc = "built"
       /\ wp_times = Some(EvenTimes)
       /\ traj[1].times = EvenTimes
       /\ traj[1].positions = Places
       /\ Increasing(EvenTimes)

\* C27 witness: three coincident waypoints timed over a window that begins
\* on a half second, under the lowest speed limit.
C27_Witness ==
    /\ tpc = "built"
    /\ Len(waypoints) = 3
    /\ NoneStamped
    /\ AllCoincide
    /\ ValidWindow
    /\ WindowStart[2] = 2
    /\ max_speed_mps = Some(Rat(4999998, 1000000))
    /\ traj[1].times[2] = RAddLcm(WindowStart, RMul(Rat(1, 2), RSub(WindowEnd, WindowStart)))

\* The call at hand made with intruder k alone.
SingleRun(k) ==
    check_spatiotemporal_conflicts(primary_traj, <<sim_trajs[k]>>,
                                   safety_buffer_m, dt, use_3d)

\* The single-intruder runs of intruders 1..n, in list order.
SingleRuns(n) == np_array([k \in 1..n |-> SingleRun(k)])

\* The conflicts lists of runs that returned.
ListsOf(runs) == [k \in 1..Len(runs) |-> runs[k].val.conflicts]

\* The intruder list in the opposite order.
Reversed(l) == [k \in 1..Len(l) |-> l[Len(l) + 1 - k]]

\* C28: the conflicts list of a call on [I1..In] is the concatenation, in
\* list order, of the conflicts lists of the n single-intruder calls (so the
\* records of one intruder depend on the primary, that intruder, the buffer,
\* dt and the flag alone); the call raises exactly when the single-intruder
\* call of some intruder does; and the call on the list in the opposite
\* order returns the same lists joined in that order.
C28_ReportIsConcatenationOfSingles ==
    /\ pc = "raised" =>
          LET singles == SingleRuns(i)
          IN  /\ ~singles[i].ok
              /\ \A k \in 1..(i - 1) : singles[k].ok
              /\ conflicts = Joined(ListsOf(SubSeq(singles, 1, i - 1)))
    /\ pc = "done" =>
          LET singles == SingleRuns(Len(sim_trajs))
              back    == check_spatiotemporal_conflicts(
                             primary_traj, Reversed(sim_trajs),
                             safety_buffer_m, dt, use_3d)
          IN  /\ \A k \in 1..Len(sim_trajs) : singles[k].ok
              /\ result[1] = report_of(Joined(ListsOf(singles)))
              /\ back.ok
              /\ back.val.conflicts = Joined(Reversed(ListsOf(singles)))

\* C28 witness: a call on two intruders returned records of both, more of
\* the first than of the second.
C28_Witness ==
    /\ pc = "done"
    /\ Len(sim_trajs) = 2
    /\ Len(SingleRun(1).val.conflicts) > Len(SingleRun(2).val.conflicts)
    /\ Len(SingleRun(2).val.conflicts) > 0
    /\ Len(result[1].conflicts) =
          Len(SingleRun(1).val.conflicts) + Len(SingleRun(2).val.conflicts)
    /\ result[1].conflicts[Len(result[1].conflicts)].flight_id = sim_trajs[2].flight_id

-----------------------------------------------------------------------------
(* Two calls of the detector on the same trajectories, step and flag, the  *)
(* second with a safety buffer at least as large as that of the first.     *)

\* <<safety_buffer_m of the first call, safety_buffer_m of the second>>
BufferPairs ==
    {<<R(-1), R(0)>>, <<R(0), R(1)>>, <<R(1), Rat(3, 2)>>, <<R(1), R(2)>>}

\* The steps of the two calls: a positive one, and the zero step.
CompareSteps == {R(1), Zero}

InitCompare ==
    /\ primary_traj \in TrajsOver(PrimaryPaths, "primary")
    /\ \E l \in SimLists : sim_trajs = WithIds(l)
    /\ \E bp \in BufferPairs : safety_buffer_m = bp[1] /\ wider_buffer_m = bp[2]
    /\ dt \in CompareSteps
    /\ use_3d \in BOOLEAN
    /\ pc = "call"
    /\ i = 1
    /\ conflicts = <<>>
    /\ origin = <<>>
    /\ result = NoValue
    /\ formatted = NoValue
    /\ am_return = NoValue
    /\ wider_result = NoValue
    /\ TrajIdle
    /\ BuildIdle
    /\ SpatIdle
    /\ AnaIdle

FirstCall ==
    check_spatiotemporal_conflicts(primary_traj, sim_trajs, safety_buffer_m,
                                   dt, use_3d)

SecondCall ==
    check_spatiotemporal_conflicts(primary_traj, sim_trajs, wider_buffer_m,
                                   dt, use_3d)

\* the two calls returned first and second
BothReturn(first, second) ==
    /\ first.ok
    /\ second.ok
    /\ result' = Some(first.val)
    /\ conflicts' = first.val.conflicts
    /\ wider_result' = Some(second.val)

\* both calls return
DetectTwice ==
    /\ pc = "call"
    /\ BothReturn(FirstCall, SecondCall)
    /\ pc' = "done"
    /\ UNCHANGED <<primary_traj, sim_trajs, safety_buffer_m, dt, use_3d, i,
                   origin, formatted, am_return, wider_buffer_m>>
    /\ UNCHANGED <<trajVars, buildVars, spatVars, anaVars>>

\* the first call raises (np.arange on a zero step)
DetectTwiceRaise ==
    /\ pc = "call"
    /\ ~FirstCall.ok
    /\ pc' = "raised"
    /\ UNCHANGED <<primary_traj, sim_trajs, safety_buffer_m, dt, use_3d, i,
                   conflicts, origin, result, formatted, am_return>>
    /\ UNCHANGED <<trajVars, buildVars, spatVars, anaVars, cmpVars>>

NextCompare ==
    \/ DetectTwice
    \/ DetectTwiceRaise

SpecCompare == InitCompare /\ [][NextCompare]_vars

-----------------------------------------------------------------------------
(* Claim about the two calls (checked under SpecCompare).                  *)

\* The instants of the records of intruder k in a report (the intruders of
\* one call carry different flight ids).
InstantsIn(report, k) ==
    {Instant(report.conflicts[j].time_of_min) :
        j \in {q \in 1..Len(report.conflicts) :
                  report.conflicts[q].flight_id = sim_trajs[k].flight_id}}

Clear == [status |-> "clear", conflicts |-> <<>>]

\* C29: for b1 <= b2 (trajectories, dt and use_3d fixed), every (intruder,
\* instant) reported with buffer b1 is reported with b2, and status "clear"
\* with b2 implies "clear" with b1; with a buffer <= 0 the report is "clear"
\* with no record.
C29_BufferMonotone ==
    pc = "done" =>
        /\ RLe(safety_buffer_m, wider_buffer_m)
        /\ \A k \in 1..Len(sim_trajs) :
              InstantsIn(result[1], k) \subseteq InstantsIn(wider_result[1], k)
        /\ Len(result[1].conflicts) <= Len(wider_result[1].conflicts)
        /\ wider_result[1].status = "clear" => result[1].status = "clear"
        /\ RLe(safety_buffer_m, Zero) => result[1] = Clear
        /\ RLe(wider_buffer_m, Zero) => wider_result[1] = Clear

\* C29 witness: the call with buffer 1 returned "conflict", and the call
\* with buffer 2 reports an instant more for one of the intruders.
C29_Witness ==
    /\ pc = "done"
    /\ safety_buffer_m = R(1)
    /\ wider_buffer_m = R(2)
    /\ result[1].status = "conflict"
    /\ \E k \in 1..Len(sim_trajs) :
          /\ InstantsIn(result[1], k) # {}
          /\ InstantsIn(wider_result[1], k) # InstantsIn(result[1], k)

-----------------------------------------------------------------------------
(* The mission analyzer (analyzer.py), the loading of its two files        *)
(* (io.py) and the command-line entry point (cli.py).  The content of the  *)
(* primary mission file is a record [waypoints, start, end, constraints],  *)
(* that of the flights file a list of records [flight_id, waypoints]; a    *)
(* waypoint of a file is a Waypoint record whose t is the "t" member, if   *)
(* any, and a time is the datetime its ISO string denotes.                 *)

\* start < end for two datetimes
datetime_lt(a, b) == a.s < b.s \/ (a.s = b.s /\ a.us < b.us)

\* load_primary, lines 101-136: the PrimaryMission, whose waypoints carry no
\* t whatever the file holds.
load_primary(raw) ==
    IF ~datetime_lt(raw.start, raw.end)
    THEN Raise("Primary mission time_window.start must be before end")
    ELSE IF Len(raw.waypoints) < 2
    THEN Raise("Primary mission must contain at least 2 waypoints")
    ELSE Ok([waypoints   |-> [k \in 1..Len(raw.waypoints) |->
                                Waypoint(raw.waypoints[k].x, raw.waypoints[k].y,
                                         raw.waypoints[k].z, NoValue)],
             start       |-> raw.start,
             end         |-> raw.end,
             constraints |-> raw.constraints])

\* min(times) and max(times) of a non-empty list of datetimes
min_datetime(ts) ==
    ts[CHOOSE k \in 1..Len(ts) : \A j \in 1..Len(ts) : ~datetime_lt(ts[j], ts[k])]
max_datetime(ts) ==
    ts[CHOOSE k \in 1..Len(ts) : \A j \in 1..Len(ts) : ~datetime_lt(ts[k], ts[j])]

\* load_simulated_flights, lines 181-235, for one flight without "start" and
\* "end" members: the error it raises, or "".
load_flight_error(raw) ==
    IF Len(raw.waypoints) < 2 THEN "must have at least 2 waypoints"
    ELSE IF \E k \in 1..Len(raw.waypoints) : raw.waypoints[k].t = NoValue
    THEN "missing time 't'"
    ELSE LET times == [k \in 1..Len(raw.waypoints) |-> raw.waypoints[k].t[1]]
         IN  IF ~datetime_lt(min_datetime(times), max_datetime(times))
             THEN "start must be before end"
             ELSE ""

\* load_simulated_flights: the list of SimulatedFlight values, or the error
\* of the first flight that has one.
load_simulated_flights(raw_list) ==
    LET bad == {k \in 1..Len(raw_list) : load_flight_error(raw_list[k]) # ""}
    IN  IF bad # {}
        THEN Raise(load_flight_error(
                       raw_list[CHOOSE k \in bad : \A j \in bad : k <= j]))
        ELSE Ok([k \in 1..Len(raw_list) |->
                    [flight_id |-> raw_list[k].flight_id,
                     waypoints |-> raw_list[k].waypoints]])

\* SimulatedFlight.time_bounds (models.py), for a flight that has waypoint
\* times
time_bounds(flight) ==
    LET times == SelectSeq([k \in 1..Len(flight.waypoints) |-> flight.waypoints[k].t],
                           LAMBDA t : t # NoValue)
        plain == [k \in 1..Len(times) |-> times[k][1]]
    IN  <<min_datetime(plain), max_datetime(plain)>>

\* Mutant of sim_trajs_with_ids: the trajectories left with the builder's
\* default flight_id.
sim_trajs_untagged(trajs, flights) == trajs

\* analyze_mission, lines 78-85: each trajectory rebuilt with the flight_id
\* of the flight at the same list position.
sim_trajs_with_ids(trajs, flights) ==
    [k \in 1..Len(trajs) |->
        [times     |-> trajs[k].times,
         positions |-> trajs[k].positions,
         flight_id |-> flights[k].flight_id]]

\* What a call of analyze_mission leaves: the pair it returns, or the error,
\* and the trajectories it handed to the detector, if it got that far.
Analyzed(pair, pt, sims) ==
    [ok |-> TRUE, val |-> pair, primary_traj |-> Some(pt), sim_trajs |-> sims]
AnalyzeFailed(msg) ==
    [ok |-> FALSE, val |-> <<msg>>, primary_traj |-> NoValue, sim_trajs |-> <<>>]

\* analyze_mission, lines 96-101, given what the detector returned or raised
analyze_detected(conflict_result, pt, sims) ==
    IF conflict_result.ok
    THEN Analyzed(analyze_return(conflict_result.val), pt, sims)
    ELSE AnalyzeFailed(conflict_result.val[1])

\* analyze_mission, lines 87-101
analyze_detect(pt, sims, buffer, step, flag3d) ==
    analyze_detected(check_spatiotemporal_conflicts(pt, sims, buffer, step, flag3d),
                     pt, sims)

\* Mutant of analyze_built: a flight whose trajectory cannot be built is
\* left out.
analyze_built_lenient(built, pt, flights, buffer, step, flag3d) ==
    analyze_detect(pt,
        sim_trajs_with_ids(
            [k \in 1..Len(SelectSeq(built, LAMBDA o : o.ok)) |->
                SelectSeq(built, LAMBDA o : o.ok)[k].val],
            SelectSeq(flights, LAMBDA f : Increasing([j \in 1..Len(f.waypoints) |->
                                                        timestamp(f.waypoints[j].t[1])]))),
        buffer, step, flag3d)

\* analyze_mission, lines 66-85, given what the builder returned or raised
\* for each flight: the first error propagates.
analyze_built(built, pt, flights, buffer, step, flag3d) ==
    IF \E k \in 1..Len(built) : ~built[k].ok
    THEN AnalyzeFailed(built[first_failed(built)].val[1])
    ELSE analyze_detect(pt,
             sim_trajs_with_ids([k \in 1..Len(flights) |-> built[k].val], flights),
             buffer, step, flag3d)

\* analyze_mission, lines 66-74: the builder applied to each flight in list
\* order
intruder_trajs(flights) ==
    np_array([k \in 1..Len(flights) |->
                interpolate_from_waypoints(
                    flights[k].waypoints, "linear",
                    Some(time_bounds(flights[k])), NoValue, "primary")])

\* analyze_mission, lines 66-85
analyze_intruders(pt, flights, buffer, step, flag3d) ==
    analyze_built(intruder_trajs(flights), pt, flights, buffer, step, flag3d)

\* analyze_mission, lines 59-64, given what the builder returned or raised
\* for the mission
analyze_primary_built(built, flights, buffer, step, flag3d) ==
    IF built.ok
    THEN analyze_intruders(built.val, flights, buffer, step, flag3d)
    ELSE AnalyzeFailed(built.val[1])

\* analyze_mission, lines 59-64: the primary trajectory
analyze_primary(mission, flights, buffer, step, flag3d) ==
    analyze_primary_built(
        interpolate_from_waypoints(
            mission.waypoints, "linear", Some(<<mission.start, mission.end>>),
            mission.constraints.max_speed_mps, "primary"),
        flights, buffer, step, flag3d)

\* analyze_mission, lines 52-55, given what the two loads returned or raised
analyze_loaded(loaded_primary, loaded_flights, buffer, step, flag3d) ==
    IF ~loaded_primary.ok THEN AnalyzeFailed(loaded_primary.val[1])
    ELSE IF ~loaded_flights.ok THEN AnalyzeFailed(loaded_flights.val[1])
    ELSE analyze_primary(loaded_primary.val, loaded_flights.val, buffer, step, flag3d)

\* analyze_mission
analyze_mission(primary_json, flights_json, buffer, step, flag3d) ==
    analyze_loaded(load_primary(primary_json), load_simulated_flights(flights_json),
                   buffer, step, flag3d)


\* JSON values: a dict is written as an object, a list as an array.
JsonObject(members) == [kind |-> "object", members |-> members]
JsonArray(items) == [kind |-> "array", items |-> items]

\* json.dump of the report dict {status, conflicts: [record, ...]}
json_of_report(report) ==
    JsonObject([status    |-> report.status,
                conflicts |-> JsonArray([k \in 1..Len(report.conflicts) |->
                                  JsonObject(report.conflicts[k])])])

\* run_analysis, lines 43-59, for the pair analyze_mission returned: the
\* lines printed and the JSON value written, if any.  The name `conflicts`
\* of line 36 is bound to the second element of the pair, the report dict:
\* len() of it is its number of keys and iterating it yields its keys.
run_analysis_output(status, conflicts_dict, out_file) ==
    [ok          |-> TRUE,
     stdout      |-> (IF status = "clear" THEN <<"CLEAR">> ELSE <<"CONFLICT DETECTED">>)
                     \o (IF status = "CONFLICT DETECTED"
                         THEN <<"Conflicts found: 2", "status", "conflicts">>
                         ELSE <<>>),
     report_json |-> IF out_file # NoValue
                     THEN Some(JsonObject([status    |-> status,
                                           conflicts |-> json_of_report(conflicts_dict)]))
                     ELSE NoValue]

\* run_analysis without animation, given what analyze_mission returned or
\* raised (lines 29-41: the two loads, then the analysis with use_3d left to
\* its default)
run_analysis(analysis, out_file) ==
    IF analysis.ok
    THEN run_analysis_output(analysis.val[1], analysis.val[2], out_file)
    ELSE [ok |-> FALSE, stdout |-> <<>>, report_json |-> NoValue]

-----------------------------------------------------------------------------
(* Inputs of the analyzer.                                                 *)

\* Waypoints of the primary mission file: a 5 m leg, a hover, a path that
\* repeats its first waypoint, a single waypoint, and the 5 m leg with "t"
\* members that lie outside every window below.
MissionWaypoints ==
    {[k \in 1..Len(path) |-> Waypoint(path[k][1], path[k][2], path[k][3], NoValue)] :
        path \in {<<Spot0, Spot1>>, <<Spot0, Spot0>>, <<Spot0, Spot0, Spot1>>, <<Spot0>>}}
    \cup {<<Waypoint(0, 0, NoValue, Some(DateTime(MaxT + 1, 0))),
            Waypoint(3, 4, Some(0), Some(DateTime(MaxT + 2, 0)))>>}

\* time_window of the file: from second 0 to every whole second, one that
\* starts later and one inverted.
MissionWindows ==
    {<<DateTime(0, 0), b>> : b \in Instants}
    \cup {<<DateTime(1, 0), DateTime(MaxT, 0)>>, <<DateTime(1, 0), DateTime(0, 0)>>}

\* constraints of the file: none, and max_speed_mps = 4
MissionConstraints == {[max_speed_mps |-> NoValue], [max_speed_mps |-> Some(R(4))]}

PrimaryMissionFiles ==
    {[waypoints |-> w, start |-> tw[1], end |-> tw[2], constraints |-> c] :
        w \in MissionWaypoints, tw \in MissionWindows, c \in MissionConstraints}

\* Waypoints of one flight of the flights file: the 5 m leg flown either
\* way with one of its two times at second 0 (equal and decreasing times
\* included), a flight of one waypoint, and one whose second waypoint has
\* no "t".
FlightWaypoints ==
    {<<Waypoint(path[1][1], path[1][2], path[1][3], Some(DateTime(ts[1], 0))),
       Waypoint(path[2][1], path[2][2], path[2][3], Some(DateTime(ts[2], 0)))>> :
        path \in {<<Spot0, Spot1>>, <<Spot1, Spot0>>},
        ts \in {<<0, k>> : k \in 0..MaxT} \cup {<<k, 0>> : k \in 0..MaxT}}
    \cup {<<Waypoint(0, 0, NoValue, Some(DateTime(0, 0)))>>,
          <<Waypoint(0, 0, NoValue, Some(DateTime(0, 0))), Waypoint(3, 4, Some(0), NoValue)>>}

\* The flights file: up to two flights, named by FlightIds in file order.
FlightFiles ==
    UNION {{[k \in 1..n |-> [flight_id |-> FlightIds[k], waypoints |-> f[k]]] :
              f \in [1..n -> FlightWaypoints]} : n \in 0..2}

\* entry, use_3d and output_file of a call: analyze_mission with either
\* flag, run_analysis with or without --out.
AnalyzeEntries ==
    {<<"analyze_mission", f, NoValue>> : f \in BOOLEAN}
    \cup {<<"run_analysis", FALSE, o>> : o \in {NoValue, Some("report.json")}}

InitAnalyze ==
    /\ primary_mission_json \in PrimaryMissionFiles
    /\ simulated_flights_json \in FlightFiles
    /\ \E e \in AnalyzeEntries :
          /\ entry = e[1]
          /\ use_3d = e[2]
          /\ output_file = e[3]
    /\ safety_buffer_m = R(1)
    /\ dt = R(1)
    /\ stdout = <<>>
    /\ report_json = NoValue
    /\ apc = "call"
    /\ primary_traj = NoValue
    /\ sim_trajs = <<>>
    /\ pc = "idle"
    /\ i = 1
    /\ conflicts = <<>>
    /\ origin = <<>>
    /\ result = NoValue
    /\ formatted = NoValue
    /\ am_return = NoValue
    /\ TrajIdle
    /\ BuildIdle
    /\ SpatIdle
    /\ CmpIdle

\* What analyze_mission does with the arguments of the state.
Analysis == analyze_mission(primary_mission_json, simulated_flights_json, safety_buffer_m, dt, use_3d)

\* The call returns the pair of analysis r, having handed its trajectories
\* to the detector; run_analysis then prints and writes o.
Returns(r, o) ==
    /\ r.ok
    /\ primary_traj' = r.primary_traj[1]
    /\ sim_trajs' = r.sim_trajs
    /\ result' = Some(r.val[2])
    /\ am_return' = Some(r.val)
    /\ stdout' = o.stdout
    /\ report_json' = o.report_json
    /\ apc' = "returned"
    /\ UNCHANGED <<safety_buffer_m, dt, use_3d, pc, i, conflicts, origin, formatted>>
    /\ UNCHANGED <<primary_mission_json, simulated_flights_json, entry, output_file>>
    /\ UNCHANGED <<trajVars, buildVars, spatVars, cmpVars>>

\* The call raises what analysis r raised.
Raises(r) ==
    /\ ~r.ok
    /\ apc' = "raised"
    /\ UNCHANGED <<detVars, trajVars, buildVars, spatVars, cmpVars>>
    /\ UNCHANGED <<primary_mission_json, simulated_flights_json, entry, output_file,
                   stdout, report_json>>

\* run_analysis after analysis r
RunReturns(r) == Returns(r, run_analysis(r, output_file))

\* analyze_mission called directly, returning its pair.
AnalyzeMission ==
    /\ apc = "call"
    /\ entry = "analyze_mission"
    /\ Returns(Analysis, [stdout |-> <<>>, report_json |-> NoValue])

\* analyze_mission called directly, raising.
AnalyzeMissionRaise ==
    /\ apc = "call"
    /\ entry = "analyze_mission"
    /\ Raises(Analysis)

\* run_analysis, to its end.
RunAnalysis ==
    /\ apc = "call"
    /\ entry = "run_analysis"
    /\ RunReturns(Analysis)

\* run_analysis, raising what a load or analyze_mission raised.
RunAnalysisRaise ==
    /\ apc = "call"
    /\ entry = "run_analysis"
    /\ Raises(Analysis)

NextAnalyze ==
    \/ AnalyzeMission
    \/ AnalyzeMissionRaise
    \/ RunAnalysis
    \/ RunAnalysisRaise

SpecAnalyze == InitAnalyze /\ [][NextAnalyze]_vars


-----------------------------------------------------------------------------
(* Claims about analyze_mission and run_analysis.                          *)

\* The place of a waypoint of a file, a missing altitude read as 0.
PlaceOf(w) == <<R(w.x), R(w.y), IF w.z = NoValue THEN Zero ELSE R(w.z[1])>>

\* The k-th flight of the flights file and the times of its waypoints.
Flight(k) == simulated_flights_json[k]
FlightStamps(k) == [j \in 1..Len(Flight(k).waypoints) |-> Seconds(Flight(k).waypoints[j].t[1])]

\* The records the detector yields for the primary trajectory and the k-th
\* intruder trajectory of the state.
RecordsOf(k) == records_for(primary_traj, sim_trajs[k], safety_buffer_m, dt, use_3d).val

\* C23: when analyze_mission returns, the primary trajectory it handed to
\* the detector has one knot per mission waypoint at that waypoint's place,
\* begins at mission.start and ends at mission.end with increasing times
\* derived from the window (never the "t" members of the file's waypoints);
\* the k-th intruder trajectory has exactly the k-th flight's waypoint
\* timestamps as its times (so its range is that flight's earliest and
\* latest timestamp), that flight's places and that flight's flight_id; and
\* the report lists, flight by flight in file order, the records the
\* detector yields for that flight's trajectory, each carrying that
\* flight's flight_id.
C23_ArgumentWiring ==
    apc = "returned" =>
        LET mission == primary_mission_json
            n       == Len(simulated_flights_json)
        IN  /\ Len(primary_traj.times) = Len(mission.waypoints)
            /\ primary_traj.positions =
                   [k \in 1..Len(mission.waypoints) |-> PlaceOf(mission.waypoints[k])]
            /\ time_range(primary_traj) = <<Seconds(mission.start), Seconds(mission.end)>>
            /\ Increasing(primary_traj.times)
            /\ \A k \in 1..Len(mission.waypoints) :
                  mission.waypoints[k].t # NoValue =>
                      primary_traj.times[k] # Seconds(mission.waypoints[k].t[1])
            /\ Len(sim_trajs) = n
            /\ \A k \in 1..n :
                  /\ sim_trajs[k].times = FlightStamps(k)
                  /\ sim_trajs[k].positions =
                         [j \in 1..Len(Flight(k).waypoints) |-> PlaceOf(Flight(k).waypoints[j])]
                  /\ sim_trajs[k].flight_id = Flight(k).flight_id
                  /\ \A j \in 1..Len(FlightStamps(k)) :
                        /\ RLe(time_range(sim_trajs[k])[1], FlightStamps(k)[j])
                        /\ RLe(FlightStamps(k)[j], time_range(sim_trajs[k])[2])
            /\ result[1].conflicts = Joined([k \in 1..n |-> RecordsOf(k)])
            /\ \A k \in 1..n : \A m \in 1..Len(RecordsOf(k)) :
                  RecordsOf(k)[m].flight_id = Flight(k).flight_id
            /\ am_return = Some(<<result[1].status, result[1]>>)

\* C23 witness: a mission whose file waypoints carry "t" members, analysed
\* over the window [0, MaxT] against two flights of which only the second
\* comes within the buffer; the report's records name the second flight.
C23_Witness ==
    /\ apc = "returned"
    /\ primary_mission_json.waypoints[1].t # NoValue
    /\ time_range(primary_traj) = <<R(0), R(MaxT)>>
    /\ Len(sim_trajs) = 2
    /\ RecordsOf(1) = <<>>
    /\ result[1].conflicts # <<>>
    /\ \A m \in 1..Len(result[1].conflicts) :
          result[1].conflicts[m].flight_id = FlightIds[2]


\* What the two loads and the builder make of the files of the state.
LoadedMission == load_primary(primary_mission_json)
LoadedFlights == load_simulated_flights(simulated_flights_json)
BuiltPrimary ==
    interpolate_from_waypoints(
        LoadedMission.val.waypoints, "linear",
        Some(<<LoadedMission.val.start, LoadedMission.val.end>>),
        LoadedMission.val.constraints.max_speed_mps, "primary")
BuiltIntruder(k) ==
    interpolate_from_waypoints(
        LoadedFlights.val[k].waypoints, "linear",
        Some(time_bounds(LoadedFlights.val[k])), NoValue, "primary")

PrimaryBuildFails == LoadedMission.ok /\ LoadedFlights.ok /\ ~BuiltPrimary.ok
IntruderBuildFails(k) == LoadedMission.ok /\ LoadedFlights.ok /\ ~BuiltIntruder(k).ok

\* The mission needs more than max_speed_mps (plus the tolerance) on
\* average: the 5 m leg in less than 1.25 s under the limit of 4 m/s.
MissionTooFast ==
    /\ LoadedMission.ok
    /\ LoadedFlights.ok
    /\ primary_mission_json.constraints.max_speed_mps = Some(R(4))
    /\ PlaceOf(primary_mission_json.waypoints[Len(primary_mission_json.waypoints)])
           = <<R(3), R(4), Zero>>
    /\ RLt(RSub(Seconds(primary_mission_json.end), Seconds(primary_mission_json.start)),
           Rat(5, 4))

\* The call left nothing behind: no pair, no report, no verdict, no file.
NothingReturned ==
    /\ apc = "raised"
    /\ am_return = NoValue
    /\ result = NoValue
    /\ stdout = <<>>
    /\ report_json = NoValue

\* C24: when the files load but the primary trajectory cannot be built (for
\* one, because the mission needs more than max_speed_mps) or the
\* trajectory of any one flight cannot be built (its waypoint times do not
\* increase strictly), analyze_mission, and run_analysis with it, raises:
\* there is no (status, report) pair, hence no report of the other flights'
\* conflicts and no status 'conflict'; nothing is printed or written.
C24_NoPartialResults ==
    apc \in {"returned", "raised"} =>
        /\ (PrimaryBuildFails \/ MissionTooFast
            \/ \E k \in 1..Len(simulated_flights_json) : IntruderBuildFails(k))
               => NothingReturned
        /\ MissionTooFast => PrimaryBuildFails
        /\ \A k \in 1..Len(simulated_flights_json) :
              (LoadedMission.ok /\ LoadedFlights.ok /\ ~Increasing(FlightStamps(k)))
                  => IntruderBuildFails(k)

\* C24 witness: the call raised for a file of two flights in which the
\* first flight's trajectory is built and comes under the buffer of the
\* primary, and the second flight's times decrease.
C24_Witness ==
    /\ apc = "raised"
    /\ LoadedMission.ok
    /\ LoadedFlights.ok
    /\ BuiltPrimary.ok
    /\ Len(simulated_flights_json) = 2
    /\ BuiltIntruder(1).ok
    /\ records_for(BuiltPrimary.val, BuiltIntruder(1).val, safety_buffer_m, dt, use_3d).val # <<>>
    /\ ~Increasing(FlightStamps(2))
    /\ IntruderBuildFails(2)
    /\ NothingReturned


\* The report analyze_mission returned.
ReturnedStatus == am_return[1][1]
ReturnedReport == am_return[1][2]

\* What run_analysis wrote to output_file.
Written == report_json[1]

\* C30 (as stated): the JSON value run_analysis writes for --out is an
\* object whose status is the status analyze_mission returned and whose
\* conflicts member is the array of the conflict records of the analysis,
\* one element per record; and the verdict printed is CLEAR exactly when
\* the status is 'clear'.
C30_WrittenReportShape ==
    (apc = "returned" /\ entry = "run_analysis") =>
        /\ stdout[1] = "CLEAR" <=> ReturnedStatus = "clear"
        /\ output_file # NoValue =>
              /\ report_json # NoValue
              /\ Written.kind = "object"
              /\ Written.members.status = ReturnedStatus
              /\ Written.members.conflicts.kind = "array"
              /\ Len(Written.members.conflicts.items) = Len(ReturnedReport.conflicts)

\* What holds of the written value instead: its conflicts member is the
\* whole report dict, an object with its own status and conflicts.
WrittenReportIsNested ==
    (apc = "returned" /\ entry = "run_analysis") =>
        /\ Len(stdout) = 1
        /\ stdout[1] = "CLEAR" <=> ReturnedStatus = "clear"
        /\ stdout[1] = "CONFLICT DETECTED" <=> ReturnedStatus = "conflict"
        /\ output_file = NoValue <=> report_json = NoValue
        /\ output_file # NoValue =>
              /\ Written.kind = "object"
              /\ Written.members.status = ReturnedStatus
              /\ Written.members.conflicts = json_of_report(ReturnedReport)
              /\ Written.members.conflicts.kind = "object"

=============================================================================
